---- MODULE Spec2Model ----
\* Model of the DroidNode episode engines:
\*   src/tools/actl_agent.py                  (run_agent, _tap_with_retry, ...)
\*   src/clients/llm-controller/controller.py (run_controller, ...)
\* The device service and the model service are the environment: every call
\* to them returns a value drawn from a small set, or raises.
EXTENDS Integers, Sequences, FiniteSets, TLC

VARIABLES
    engine,               \* "agent" (run_agent) or "controller" (run_controller)
    cfg,                  \* the configuration the run was started with
    device,               \* what the device service reports (click range)
    click_range,          \* the click range the engine read at start-up
    pc,                   \* position in the engine's code
    step,                 \* loop variable of the episode loop
    outcome,              \* "running" | "finished" | "exhausted" | "fatal"
    history,              \* in-memory history list
    prev_state,           \* run_agent: previous step's captured UiState
    state,                \* run_agent: this step's captured UiState
    same_state_streak,    \* run_agent
    last_tap_point,       \* run_agent
    pending_focus_ctx,    \* run_agent
    focus_for_this_step,  \* run_agent
    action,               \* the intent the step works on
    err,                  \* run_agent: reason of the first invalid answer
    attempt,              \* run_agent: stricter re-prompts issued in this step
    recovered_from_invalid,
    target,               \* x, y handed to _tap_with_retry
    i,                    \* _tap_with_retry: loop index (0-based)
    any_success,          \* _tap_with_retry
    final_point,          \* _tap_with_retry
    ok,                   \* result of the step's executor
    ui_changed,           \* result of the step's executor / post check
    final_tap_point,      \* run_agent
    post_state,           \* run_agent: capture of the post-action state check
    obs                   \* observation record (not program state), see ObsInit

vars == << engine, cfg, device, click_range, pc, step, outcome, history,
           prev_state, state, same_state_streak, last_tap_point,
           pending_focus_ctx, focus_for_this_step, action, err, attempt,
           recovered_from_invalid, target, i, any_success, final_point,
           ok, ui_changed, final_tap_point, post_state, obs >>

\* ---------------------------------------------------------------- bounds

\* Largest step budget (--max-steps) a run is started with.
MaxSteps == 3

\* ---------------------------------------------------------------- helpers

Min(a, b) == IF a < b THEN a ELSE b

Max(a, b) == IF a > b THEN a ELSE b

Abs(a) == IF a < 0 THEN -a ELSE a

\* Optional values (Python None) are records with a "some" flag.
NoPoint == [some |-> FALSE, x |-> 0, y |-> 0]

Pt(px, py) == [some |-> TRUE, x |-> px, y |-> py]

NoInt == [some |-> FALSE, v |-> 0]

SomeInt(n) == [some |-> TRUE, v |-> n]

NoStr == [some |-> FALSE, v |-> ""]

SomeStr(s) == [some |-> TRUE, v |-> s]

\* ---------------------------------------------------------------- screens

\* Number of thumbnail pixels per axis used by the perceptual hash.
size == 8

\* Luminance tolerance of _is_near_solid.
tolerance == 3

\* The frame every screenshot of the modelled device has.
Frame == [w |-> 1080, h |-> 2340]

\* 8x8 luminance thumbnails (row-major, size * size pixels).
HalfBright == [k \in 1..(size * size) |-> IF k <= 32 THEN 200 ELSE 20]

HalfBrightDot == [k \in 1..(size * size) |-> IF k = 1 THEN 20 ELSE HalfBright[k]]

HalfDark == [k \in 1..(size * size) |-> IF k <= 32 THEN 20 ELSE 200]

\* A screenshot as the device returns it.  id stands for the PNG bytes (two
\* screenshots have the same bytes iff they have the same id); thumb is the
\* 8x8 luminance thumbnail PIL computes from it; flat_radius / flat_span say
\* how far around a tap point the image is uniform and by how much the
\* luminance varies there; w and h are the image size.
Screens ==
    { [id |-> 1, decodable |-> TRUE,  thumb |-> HalfBright,
       flat_radius |-> 0, flat_span |-> 0, w |-> Frame.w, h |-> Frame.h],
      [id |-> 2, decodable |-> TRUE,  thumb |-> HalfBrightDot,
       flat_radius |-> 220, flat_span |-> 3, w |-> Frame.w, h |-> Frame.h],
      [id |-> 3, decodable |-> TRUE,  thumb |-> HalfDark,
       flat_radius |-> 5000, flat_span |-> 0, w |-> Frame.w, h |-> Frame.h],
      [id |-> 4, decodable |-> FALSE, thumb |-> HalfBright,
       flat_radius |-> 0, flat_span |-> 0, w |-> Frame.w, h |-> Frame.h] }

\* A screenshot of 720 x 1280 pixels; build_focus_context is also called with
\* it, the explored runs capture the screens above only.
SmallScreen ==
    [id |-> 5, decodable |-> TRUE, thumb |-> HalfBright,
     flat_radius |-> 0, flat_span |-> 0, w |-> 720, h |-> 1280]

RECURSIVE SumSeq(_, _)
SumSeq(s, k) == IF k = 0 THEN 0 ELSE s[k] + SumSeq(s, k - 1)

\* None, or the bit pattern (most significant bit first) as a sequence.
NoHash == [some |-> FALSE, bits |-> << >>]

_compute_screen_ahash(shot) ==
    IF ~shot.decodable THEN NoHash
    ELSE LET n == size * size
             total == SumSeq(shot.thumb, n)
         IN  [some |-> TRUE,
              bits |-> [k \in 1..n |-> IF shot.thumb[k] * n >= total THEN 1 ELSE 0]]

\* A distance that leaves the most significant bit out.
_hamming_distance_low_bits(a, b) == Cardinality({k \in 2..Len(a) : a[k] # b[k]})

_hamming_distance(a, b) == Cardinality({k \in 1..Len(a) : a[k] # b[k]})

\* UiState.  image_b64 and state_sig both stand for the PNG bytes (base64 and
\* sha256 of them are injective on the modelled screens).
NoState == [some |-> FALSE, source |-> "none", image_b64 |-> 0,
            state_sig |-> 0, screen_ahash |-> NoHash]

fetch_ui_state(shot) ==
    [some |-> TRUE, source |-> "screenshot", image_b64 |-> shot.id,
     state_sig |-> shot.id, screen_ahash |-> _compute_screen_ahash(shot)]

\* The image a base64 string decodes to.
ScreenOf(image_b64) == CHOOSE s \in Screens \cup {SmallScreen} : s.id = image_b64

_states_similar(prev, curr, ahash_threshold) ==
    IF ~prev.some \/ ~curr.some THEN FALSE
    ELSE IF prev.source # curr.source THEN FALSE
    ELSE IF curr.source = "xml" THEN prev.state_sig = curr.state_sig
    ELSE IF prev.screen_ahash.some /\ curr.screen_ahash.some
         THEN _hamming_distance(prev.screen_ahash.bits, curr.screen_ahash.bits)
                  <= ahash_threshold
    ELSE prev.state_sig = curr.state_sig

_clip(v, low, high) == Max(low, Min(high, v))

\* ---------------------------------------------------------------- answers

\* A model answer after _extract_answer, as the pieces parse_action's regular
\* expressions look for: head is what the text starts with ("finish(" /
\* do(action="..." ...) / anything else), act the quoted action name, and one
\* optional field per keyword argument.  oversized says that the numbers
\* written in the text have more digits than int() converts (more than 4300
\* by default since Python 3.11): int() raises ValueError on them.
RawBase ==
    [head |-> "other", act |-> "", element |-> NoPoint, start |-> NoPoint,
     end |-> NoPoint, durationMs |-> NoInt, text |-> NoStr,
     enterAction |-> NoStr, message |-> NoStr, duration |-> NoInt,
     oversized |-> FALSE]

RawFinish == [RawBase EXCEPT !.head = "finish", !.message = SomeStr("done")]

RawTap(px, py) == [RawBase EXCEPT !.head = "do", !.act = "Tap", !.element = Pt(px, py)]

RawSwipe(p, q, d) ==
    [RawBase EXCEPT !.head = "do", !.act = "Swipe", !.start = p, !.end = q,
                    !.durationMs = d]

RawType == [RawBase EXCEPT !.head = "do", !.act = "Type", !.text = SomeStr("hi"),
                           !.enterAction = SomeStr("send")]

RawWait == [RawBase EXCEPT !.head = "do", !.act = "Wait", !.duration = SomeInt(2)]

\* The answers the model service may give in the explored runs; their
\* numbers are short enough for int().
Answers ==
    { RawFinish,
      RawTap(400, 900),
      RawTap(320, 900),
      RawTap(5000, -7),
      [RawBase EXCEPT !.head = "do", !.act = "Tap"],
      RawSwipe(Pt(500, 1500), Pt(500, 500), SomeInt(300)),
      RawSwipe(Pt(-20, 3000), Pt(2000, 100), NoInt),
      RawType,
      RawWait,
      [RawBase EXCEPT !.head = "do", !.act = "Back"],
      RawBase }

IntentBase ==
    [kind |-> "invalid", x |-> 0, y |-> 0, sx |-> 0, sy |-> 0, ex |-> 0, ey |-> 0,
     durationMs |-> 0, text |-> "", enterAction |-> NoStr, seconds |-> 0,
     message |-> "", raw |-> RawBase, reason |-> ""]

Invalid(answer, why) == [IntentBase EXCEPT !.raw = answer, !.reason = why]

\* The call does not return: int() raised ValueError in _parse_pair,
\* _parse_int or on the digits of the duration.
Raised(answer) == [IntentBase EXCEPT !.kind = "raised", !.raw = answer]

parse_action(answer) ==
    IF answer.head = "finish"
    THEN [IntentBase EXCEPT !.kind = "finish",
             !.message = IF answer.message.some THEN answer.message.v ELSE ""]
    ELSE IF answer.head # "do"
    THEN Invalid(answer, "cannot parse action format")
    ELSE IF answer.act = "Tap"
    THEN IF answer.element.some /\ answer.oversized
         THEN Raised(answer)
         ELSE IF ~answer.element.some
         THEN Invalid(answer, "missing element=[x,y]")
         ELSE [IntentBase EXCEPT !.kind = "tap", !.x = answer.element.x,
                                 !.y = answer.element.y]
    ELSE IF answer.act = "Swipe"
    THEN IF (answer.start.some \/ answer.end.some \/ answer.durationMs.some)
               /\ answer.oversized
         THEN Raised(answer)
         ELSE IF ~answer.start.some \/ ~answer.end.some
         THEN Invalid(answer, "missing start/end")
         ELSE [IntentBase EXCEPT !.kind = "swipe",
                  !.sx = answer.start.x, !.sy = answer.start.y,
                  !.ex = answer.end.x, !.ey = answer.end.y,
                  !.durationMs = IF answer.durationMs.some /\ answer.durationMs.v # 0
                                 THEN answer.durationMs.v ELSE 300]
    ELSE IF answer.act \in {"Type", "Type_Name"}
    THEN IF ~answer.text.some
         THEN Invalid(answer, "missing text")
         ELSE [IntentBase EXCEPT !.kind = "type", !.text = answer.text.v,
                                 !.enterAction = answer.enterAction]
    ELSE IF answer.act = "Wait"
    THEN IF answer.duration.some /\ answer.oversized
         THEN Raised(answer)
         ELSE [IntentBase EXCEPT !.kind = "wait",
                  !.seconds = Max(1, Min(IF answer.duration.some THEN answer.duration.v
                                         ELSE 2, 15))]
    ELSE Invalid(answer, "unsupported action")

\* ---------------------------------------------------------------- set-ups

\* agent section of the configuration file, with run_agent's defaults.
DefaultAgentCfg ==
    [max_steps |-> MaxSteps, tap_retry_on_no_change |-> 2,
     invalid_action_retry |-> 1, min_tap_drift_px |-> 50,
     post_state_check |-> TRUE, focus_radius_px |-> 200,
     focus_expand_step_px |-> 50, focus_max_radius_px |-> 250,
     screenshot_ahash_threshold |-> 6]

\* Click ranges a device may report: a full screen and a narrow strip.
FullRange == [xMin |-> 0, yMin |-> 0, xMax |-> 1079, yMax |-> 2339]

NarrowRange == [xMin |-> 380, yMin |-> 880, xMax |-> 420, yMax |-> 920]

\* The runs of run_agent that are explored: configuration and device.
\* The default configuration runs with every budget up to MaxSteps; the
\* variants change one setting each and run one or two steps.
AgentSetups ==
    { [cfg |-> [DefaultAgentCfg EXCEPT !.max_steps = n], device |-> FullRange] :
          n \in 0..MaxSteps }
    \cup
    { [cfg |-> [c EXCEPT !.max_steps = 1], device |-> FullRange] :
          c \in { [DefaultAgentCfg EXCEPT !.tap_retry_on_no_change = 0],
                  [DefaultAgentCfg EXCEPT !.tap_retry_on_no_change = 9],
                  [DefaultAgentCfg EXCEPT !.tap_retry_on_no_change = -1],
                  [DefaultAgentCfg EXCEPT !.invalid_action_retry = 0],
                  [DefaultAgentCfg EXCEPT !.invalid_action_retry = 2] } }
    \cup
    { [cfg |-> [DefaultAgentCfg EXCEPT !.max_steps = 2, !.post_state_check = FALSE],
       device |-> FullRange] }
    \cup
    { [cfg |-> [DefaultAgentCfg EXCEPT !.max_steps = 2], device |-> NarrowRange] }

\* ---------------------------------------------------------------- focus

NoFocus ==
    [some |-> FALSE, center_x |-> 0, center_y |-> 0, radius_px |-> 0,
     box_left |-> 0, box_top |-> 0, box_right |-> 0, box_bottom |-> 0,
     reason |-> "", built_step |-> 0]

\* Luminance extrema (lo, hi) of the crop of the given radius.
crop_extrema(image, radius) ==
    IF radius <= image.flat_radius THEN << 100, 100 + image.flat_span >>
    ELSE << 0, 255 >>

\* A test that takes a luminance span equal to the tolerance as not uniform.
_is_near_solid_below_tolerance(crop) == (crop[2] - crop[1]) < tolerance

_is_near_solid(crop) == (crop[2] - crop[1]) <= tolerance

NoSelection ==
    [some |-> FALSE, left |-> 0, top |-> 0, right |-> 0, bottom |-> 0,
     radius |-> 0, was_solid |-> FALSE]

\* The while loop of build_focus_context; selected is the loop's variable.
RECURSIVE focus_select(_, _, _, _, _, _, _)
focus_select(image, center_x, center_y, radius, max_radius, expand_step, selected) ==
    IF radius > max_radius THEN selected
    ELSE LET left == Max(0, center_x - radius)
             top == Max(0, center_y - radius)
             right == Min(image.w, center_x + radius)
             bottom == Min(image.h, center_y + radius)
             sel(solid) == [some |-> TRUE, left |-> left, top |-> top,
                            right |-> right, bottom |-> bottom,
                            radius |-> radius, was_solid |-> solid]
         IN  IF right <= left \/ bottom <= top THEN selected
             ELSE IF _is_near_solid(crop_extrema(image, radius))
             THEN focus_select(image, center_x, center_y, radius + expand_step,
                               max_radius, expand_step, sel(TRUE))
             ELSE sel(FALSE)

\* built_step records the step argument (used by the source for its log and
\* file names); it is not a field of FocusContext.
build_focus_context(full_image_b64, center_x, center_y, stepno, focus_radius_px, focus_expand_step_px, focus_max_radius_px) ==
    IF ~ScreenOf(full_image_b64).decodable THEN NoFocus
    ELSE LET radius == Max(10, focus_radius_px)
             max_radius == Max(radius, focus_max_radius_px)
             expand_step == Max(10, focus_expand_step_px)
             selected == focus_select(ScreenOf(full_image_b64), center_x, center_y,
                                      radius, max_radius, expand_step, NoSelection)
         IN  IF ~selected.some THEN NoFocus
             ELSE [some |-> TRUE, center_x |-> center_x, center_y |-> center_y,
                   radius_px |-> selected.radius,
                   box_left |-> selected.left, box_top |-> selected.top,
                   box_right |-> selected.right, box_bottom |-> selected.bottom,
                   reason |-> IF selected.was_solid THEN "expanded_from_solid"
                              ELSE "direct",
                   built_step |-> stepno]

\* ---------------------------------------------------------------- tap ladder

offsets ==
    << <<0, 0>>, <<50, 0>>, <<-50, 0>>, <<0, 50>>, <<0, -50>>, <<80, 80>>, <<-80, 80>> >>

\* A ladder that counts the retries only.
ladder_attempts_retries_only(max_retry) == Min(max_retry, Len(offsets))

\* attempts = min(max_retry + 1, len(offsets))
ladder_attempts(max_retry) == Min(max_retry + 1, Len(offsets))

\* The point attempt k (0-based) clicks.
ladder_point(px, py, k, cr) ==
    Pt(_clip(px + offsets[k + 1][1], cr.xMin, cr.xMax),
       _clip(py + offsets[k + 1][2], cr.yMin, cr.yMax))

\* Whether the loop guard of run_agent fires for the model's target.
drift_too_small(tx, ty, streak, last, drift) ==
    /\ streak >= 1
    /\ last.some
    /\ Abs(tx - last.x) + Abs(ty - last.y) < drift

\* The target after the loop guard's nudge.
force_drift(tx, ty, drift, cr) ==
    IF tx + drift <= cr.xMax THEN Pt(tx + drift, ty)
    ELSE IF tx - drift >= cr.xMin THEN Pt(tx - drift, ty)
    ELSE IF ty + drift <= cr.yMax THEN Pt(tx, ty + drift)
    ELSE Pt(tx, Max(cr.yMin, ty - drift))

\* ---------------------------------------------------------------- grid

_clamp(v, lo, hi) == Max(lo, Min(hi, v))

\* A ratio (Python float) as an exact fraction num / den, den > 0.  The
\* explored ratios are multiples of 1/4, which floats represent exactly.
Ratio(n, d) == [num |-> n, den |-> d]

\* max(0.0, min(1.0, r))
clamp01(r) ==
    IF r.num < 0 THEN Ratio(0, 1)
    ELSE IF r.num > r.den THEN Ratio(1, 1)
    ELSE r

\* int(base + r * span) for base, span >= 0 and 0 <= r <= 1
scaled(base, r, span) == base + ((r.num * span) \div r.den)

\* A candidate of _choose_adaptive_grid.  The cell aspect ratio is
\* (width / cols) / (height / rows) = p / q with p = width * rows and
\* q = height * cols; its log error |ln(p / q)| is ln(hi / lo) for
\* hi = max(p, q), lo = min(p, q), so log errors compare as the fractions
\* hi / lo compare.
Candidate(rows, cols, width, height) ==
    [rows |-> rows, cols |-> cols, cells |-> rows * cols,
     hi |-> Max(width * rows, height * cols),
     lo |-> Min(width * rows, height * cols)]

\* log_error(c) <= log_error(d), log_error(c) = log_error(d)
LogErrLeq(c, d) == c.hi * d.lo <= d.hi * c.lo

LogErrEq(c, d) == c.hi * d.lo = d.hi * c.lo

\* c comes before d in the order the nested loops append candidates.
Earlier(c, d) == c.rows < d.rows \/ (c.rows = d.rows /\ c.cols <= d.cols)

\* A key that puts the log error before the number of cells.
CellsFirst_error_before_cells(c, d) ==
    \/ ~LogErrLeq(d, c)
    \/ LogErrEq(c, d) /\ c.cells < d.cells
    \/ LogErrEq(c, d) /\ c.cells = d.cells /\ Earlier(c, d)

\* key (cells, log_error) of c is <= that of d, ties going to the earlier.
CellsFirst(c, d) ==
    \/ c.cells < d.cells
    \/ c.cells = d.cells /\ ~LogErrLeq(d, c)
    \/ c.cells = d.cells /\ LogErrEq(c, d) /\ Earlier(c, d)

\* key (log_error, cells) of c is <= that of d, ties going to the earlier.
ErrorFirst(c, d) ==
    \/ ~LogErrLeq(d, c)
    \/ LogErrEq(c, d) /\ c.cells < d.cells
    \/ LogErrEq(c, d) /\ c.cells = d.cells /\ Earlier(c, d)

\* A grid choice that also takes cells of exactly one pixel.
_choose_adaptive_grid_one_pixel(width, height, min_segments, max_segments, near) ==
    LET segments == min_segments..max_segments
        candidates ==
            { Candidate(rc[1], rc[2], width, height) :
                  rc \in { c \in segments \X segments :
                               width >= c[2] /\ height >= c[1] } }
        near_square == { c \in candidates : c.hi * near.den <= near.num * c.lo }
        best == IF near_square # {}
                THEN CHOOSE c \in near_square : \A d \in near_square : CellsFirst(c, d)
                ELSE CHOOSE c \in candidates : \A d \in candidates : ErrorFirst(c, d)
    IN  IF candidates = {} THEN [rows |-> 3, cols |-> 3, cells |-> 9]
        ELSE [rows |-> best.rows, cols |-> best.cols, cells |-> best.cells]

\* near is exp(target_log_error) as a fraction: log_error <= target_log_error
\* iff hi / lo <= near.  The result is (rows, cols, cells); the aspect and the
\* log error the source also returns are only printed.
_choose_adaptive_grid(width, height, min_segments, max_segments, near) ==
    LET segments == min_segments..max_segments
        candidates ==
            { Candidate(rc[1], rc[2], width, height) :
                  rc \in { c \in segments \X segments :
                               width > c[2] /\ height > c[1] } }
        near_square == { c \in candidates : c.hi * near.den <= near.num * c.lo }
        best == IF near_square # {}
                THEN CHOOSE c \in near_square : \A d \in near_square : CellsFirst(c, d)
                ELSE CHOOSE c \in candidates : \A d \in candidates : ErrorFirst(c, d)
    IN  IF candidates = {} THEN [rows |-> 3, cols |-> 3, cells |-> 9]
        ELSE [rows |-> best.rows, cols |-> best.cols, cells |-> best.cells]

_region_box(region, rows, cols, width, height) ==
    LET r == _clamp(region, 1, rows * cols) - 1
        row == r \div cols
        col == r % cols
        cell_w == width \div cols
        cell_h == height \div rows
    IN  [left |-> col * cell_w, top |-> row * cell_h,
         right |-> IF col = cols - 1 THEN width ELSE (col + 1) * cell_w,
         bottom |-> IF row = rows - 1 THEN height ELSE (row + 1) * cell_h]

\* A row and column taken with the number of rows for the number of columns.
_region_row_col_by_rows(region, rows, cols) ==
    LET r == _clamp(region, 1, rows * cols) - 1
    IN  << r \div rows, r % rows >>

_region_row_col(region, rows, cols) ==
    LET r == _clamp(region, 1, rows * cols) - 1
    IN  << r \div cols, r % cols >>

_point_from_region_ratio(region, rows, cols, width, height, xr, yr) ==
    LET box == _region_box(region, rows, cols, width, height)
    IN  Pt(scaled(box.left, clamp01(xr), Max(1, box.right - box.left - 1)),
           scaled(box.top, clamp01(yr), Max(1, box.bottom - box.top - 1)))

\* ---------------------------------------------------------------- planner

\* Text whose content is inspected is a sequence of one-character strings.
Upper == << "A", "B", "C", "D", "E", "F", "G", "H", "I", "J", "K", "L", "M",
            "N", "O", "P", "Q", "R", "S", "T", "U", "V", "W", "X", "Y", "Z" >>

Lower == << "a", "b", "c", "d", "e", "f", "g", "h", "i", "j", "k", "l", "m",
            "n", "o", "p", "q", "r", "s", "t", "u", "v", "w", "x", "y", "z" >>

\* str.lower()
lower(t) ==
    [k \in 1..Len(t) |->
        IF \E n \in 1..Len(Upper) : Upper[n] = t[k]
        THEN Lower[CHOOSE n \in 1..Len(Upper) : Upper[n] = t[k]]
        ELSE t[k]]

\* k in t
contains(t, k) ==
    \E at \in 0..(Len(t) - Len(k)) : \A n \in 1..Len(k) : t[at + n] = k[n]

\* The four non-ASCII keywords are written by their code points.
keywords ==
    { << "i", "n", "p", "u", "t" >>, << "f", "i", "e", "l", "d" >>,
      << "s", "e", "a", "r", "c", "h" >>, << "b", "a", "r" >>,
      << "m", "e", "s", "s", "a", "g", "e" >>,
      << "t", "e", "x", "t", "b", "o", "x" >>,
      << "t", "e", "x", "t", " ", "b", "o", "x" >>,
      << "U+8F93", "U+5165" >>, << "U+641C", "U+7D22" >>,
      << "U+6D88", "U+606F" >>, << "U+804A", "U+5929" >> }

_looks_like_horizontal_span_target(t) ==
    \E k \in keywords : contains(lower(t), k)

\* A planner answer: the text the model service returned and the finish
\* reason of the choice.  The text is described by what the extractors look at:
\*   json            the text (or its outermost {...}) parses as a JSON object
\*   regions_closed  a "]" follows the opening of the "regions" array
\* and by the fields written in it.
NoRatio == [some |-> FALSE, num |-> 0, den |-> 1]

SomeRatio(n, d) == [some |-> TRUE, num |-> n, den |-> d]

NoRegions == [some |-> FALSE, v |-> << >>]

SomeRegions(q) == [some |-> TRUE, v |-> q]

NoFields ==
    [action |-> NoStr, target |-> << >>, region |-> NoInt, regions |-> NoRegions,
     startX |-> NoInt, startY |-> NoInt, endX |-> NoInt, endY |-> NoInt,
     direction |-> "", startRegion |-> NoInt, endRegion |-> NoInt,
     startXRatio |-> NoRatio, startYRatio |-> NoRatio,
     endXRatio |-> NoRatio, endYRatio |-> NoRatio,
     durationMs |-> NoInt, text |-> "", enterAction |-> NoStr,
     waitSec |-> NoInt]

Reply(isjson, closed, reason, fields) ==
    [json |-> isjson, regions_closed |-> closed, finish_reason |-> reason,
     fields |-> fields]

\* _extract_json: the object, or None (some = FALSE).
_extract_json(raw) ==
    IF raw.json THEN [some |-> TRUE, v |-> raw.fields]
    ELSE [some |-> FALSE, v |-> NoFields]

\* (\d+) does not match a negative number.
digits(n) == IF n.some /\ n.v >= 0 THEN n ELSE NoInt

\* _extract_planner_fallback: the fields its patterns find in the text.  The
\* pattern of "regions" needs the closing bracket; the patterns of region,
\* startRegion, endRegion, durationMs and waitSec need an unsigned number; the
\* pattern of direction needs one of the four directions.
_extract_planner_fallback(raw) ==
    LET f == raw.fields
    IN  [f EXCEPT
            !.region = digits(f.region),
            !.regions = IF f.regions.some /\ raw.regions_closed
                           /\ f.regions.v # << >>
                        THEN f.regions ELSE NoRegions,
            !.direction = IF f.direction \in {"up", "down", "left", "right"}
                          THEN f.direction ELSE "",
            !.startRegion = digits(f.startRegion),
            !.endRegion = digits(f.endRegion),
            !.durationMs = digits(f.durationMs),
            !.waitSec = digits(f.waitSec)]

\* _extract_json(raw) or _extract_planner_fallback(raw): an empty object is
\* falsy, and the fallback finds nothing in it either.
planner_of(raw) ==
    IF _extract_json(raw).some /\ _extract_json(raw).v # NoFields
    THEN _extract_json(raw).v
    ELSE _extract_planner_fallback(raw)

_has_unclosed_regions_array(raw) == raw.fields.regions.some /\ ~raw.regions_closed

\* _parse_regions_value(planner.get("regions"))
_parse_regions_value(value) == IF value.some THEN value.v ELSE << >>

\* _safe_int(planner.get(key, default), default)
_safe_int(value, default) == IF value.some THEN value.v ELSE default

\* _safe_float(planner.get(key, 0.5), 0.5)
_safe_float(value, default) ==
    IF value.some THEN Ratio(value.num, value.den) ELSE default

\* sorted(set)
RECURSIVE sorted(_)
sorted(S) ==
    IF S = {} THEN << >>
    ELSE LET least == CHOOSE a \in S : \A b \in S : a <= b
         IN  << least >> \o sorted(S \ {least})

Range(q) == { q[k] : k \in 1..Len(q) }

\* _rect_cover_from_regions(planner, rows, cols, width, height): the regions
\* taken from the planner (normalized), the regions of the covering rectangle
\* in row-major order (rect_regions), the pixel box and the row/column span.
_rect_cover_from_regions(planner, rows, cols, width, height) ==
    LET cells == rows * cols
        single == _safe_int(planner.region, 0)
        regions_raw == _parse_regions_value(planner.regions)
                           \o (IF single > 0 THEN << single >> ELSE << >>)
        given == sorted({ _clamp(r, 1, cells) : r \in { a \in Range(regions_raw) : a > 0 } })
        center_region == (rows \div 2) * cols + (cols \div 2) + 1
        chosen == IF given = << >> THEN << _clamp(center_region, 1, cells) >> ELSE given
        normalized ==
            IF Len(chosen) = 1 /\ _looks_like_horizontal_span_target(planner.target)
            THEN [c \in 1..cols |-> _region_row_col(chosen[1], rows, cols)[1] * cols + (c - 1) + 1]
            ELSE chosen
        row_cols == { _region_row_col(r, rows, cols) : r \in Range(normalized) }
        min_row == CHOOSE a \in { rc[1] : rc \in row_cols } : \A rc \in row_cols : a <= rc[1]
        max_row == CHOOSE a \in { rc[1] : rc \in row_cols } : \A rc \in row_cols : a >= rc[1]
        min_col == CHOOSE a \in { rc[2] : rc \in row_cols } : \A rc \in row_cols : a <= rc[2]
        max_col == CHOOSE a \in { rc[2] : rc \in row_cols } : \A rc \in row_cols : a >= rc[2]
        span == max_col - min_col + 1
        cell_w == width \div cols
        cell_h == height \div rows
    IN  [normalized |-> normalized,
         rect_regions |->
             [k \in 1..((max_row - min_row + 1) * span) |->
                 (min_row + ((k - 1) \div span)) * cols + (min_col + ((k - 1) % span)) + 1],
         box |-> [left |-> min_col * cell_w, top |-> min_row * cell_h,
                  right |-> IF max_col = cols - 1 THEN width ELSE (max_col + 1) * cell_w,
                  bottom |-> IF max_row = rows - 1 THEN height ELSE (max_row + 1) * cell_h],
         rect_meta |-> << min_row, max_row, min_col, max_col >>]

\* ---------------------------------------------------------------- state

NoCommand == [kind |-> "none", pts |-> << >>]

\* What the environment saw of the run so far; read by the properties only.
\*   requests       model requests issued in the current step
\*   request_focus  focus context attached to the latest model request
\*   commands       control commands (click, swipe, input) sent in this step
\*   last_command   the latest control command and the points it carried
\*   finish_step    step in which a finish intent was adopted (0: none yet)
\*   nudged         the loop guard moved this step's tap target
\*   ladder         "none" | "running" | "returned" for this step's tap ladder
\*   taps           click calls made by this step's ladder
\*   saw_change     the ladder compared a post-tap state as changed
\*   same_tap_run   every step so far answered Tap [400,900] first and every
\*                  screenshot so far had the same bytes
\*   planner_raw    the planner answer of this step's tap (run_controller)
\*   repair_raw     the answer to its regions-repair prompt, if one was sent
\*   planner        the planner object its covering rectangle was taken from
\*   raised         a call raised
\*   cause          why it raised: "protocol" (a status other than 200, an
\*                  HTTP error of the model service, a wrong content type) or
\*                  "transport" (URLError: timeout, service unreachable)
ObsInit ==
    [requests |-> 0, request_focus |-> NoFocus, commands |-> 0,
     last_command |-> NoCommand, finish_step |-> 0,
     nudged |-> FALSE, ladder |-> "none", taps |-> 0, saw_change |-> FALSE,
     same_tap_run |-> TRUE,
     planner_raw |-> Reply(FALSE, TRUE, "", NoFields),
     repair_raw |-> Reply(FALSE, TRUE, "", NoFields), planner |-> NoFields,
     raised |-> FALSE, cause |-> ""]

Sent(o, kind, pts) ==
    [o EXCEPT !.commands = @ + 1, !.last_command = [kind |-> kind, pts |-> pts]]

InitAgent ==
    /\ engine = "agent"
    /\ \E su \in AgentSetups : cfg = su.cfg /\ device = su.device
    /\ click_range = [xMin |-> 0, yMin |-> 0, xMax |-> 0, yMax |-> 0]
    /\ pc = "start"
    /\ step = 0
    /\ outcome = "running"
    /\ history = << >>
    /\ prev_state = NoState
    /\ state = NoState
    /\ same_state_streak = 0
    /\ last_tap_point = NoPoint
    /\ pending_focus_ctx = NoFocus
    /\ focus_for_this_step = NoFocus
    /\ action = IntentBase
    /\ err = ""
    /\ attempt = 0
    /\ recovered_from_invalid = FALSE
    /\ target = NoPoint
    /\ i = 0
    /\ any_success = FALSE
    /\ final_point = NoPoint
    /\ ok = FALSE
    /\ ui_changed = FALSE
    /\ final_tap_point = NoPoint
    /\ post_state = NoState
    /\ obs = ObsInit

\* for step in range(1, max_steps + 1): the next iteration, or the fall-through
\* to "max steps reached" (return 2).  The locals of the loop body are dead at
\* the head of the next iteration (each is assigned before it is read), so the
\* model gives them their initial value there.
LoopNext ==
    /\ IF step < cfg.max_steps
       THEN step' = step + 1 /\ pc' = "fetch" /\ outcome' = outcome
       ELSE step' = step /\ pc' = "done" /\ outcome' = "exhausted"
    /\ action' = IntentBase
    /\ err' = ""
    /\ attempt' = 0
    /\ recovered_from_invalid' = FALSE
    /\ target' = NoPoint
    /\ i' = 0
    /\ any_success' = FALSE
    /\ final_point' = NoPoint
    /\ ok' = FALSE
    /\ ui_changed' = FALSE
    /\ final_tap_point' = NoPoint
    /\ post_state' = NoState

\* The observations of one step are cleared with its locals.
StepObs(o) ==
    [o EXCEPT !.requests = 0, !.request_focus = NoFocus, !.commands = 0,
              !.last_command = NoCommand, !.nudged = FALSE, !.ladder = "none",
              !.taps = 0, !.saw_change = FALSE,
              !.planner_raw = ObsInit.planner_raw,
              !.repair_raw = ObsInit.repair_raw, !.planner = ObsInit.planner]

\* An exception leaves the engine; the process exits with code 1.
Fatal ==
    /\ pc' = "done"
    /\ outcome' = "fatal"

\* ---------------------------------------------------------------- run_agent

\* get_system_info succeeded; the loop is entered.
AgentStart ==
    /\ engine = "agent" /\ pc = "start"
    /\ click_range' = device
    /\ IF cfg.max_steps >= 1
       THEN step' = 1 /\ pc' = "fetch" /\ outcome' = outcome
       ELSE step' = step /\ pc' = "done" /\ outcome' = "exhausted"
    /\ UNCHANGED << engine, cfg, device, history, prev_state, state,
                    same_state_streak, last_tap_point, pending_focus_ctx,
                    focus_for_this_step, action, err, attempt,
                    recovered_from_invalid, target, i, any_success, final_point,
                    ok, ui_changed, final_tap_point, post_state, obs >>

\* A loop head that keeps the pending focus context.
consume_pending_kept(pending) == pending

\* pending_focus_ctx after the head of the loop body.
consume_pending(pending) == NoFocus

\* A streak that is never reset.
next_streak_never_reset(prev, same_as_prev, streak) ==
    IF prev.some /\ same_as_prev THEN streak + 1 ELSE streak

next_streak(prev, same_as_prev, streak) ==
    IF prev.some /\ same_as_prev THEN streak + 1 ELSE 0

\* Head of the loop body up to the first model request.
AgentFetch ==
    /\ engine = "agent" /\ pc = "fetch"
    /\ \E shot \in Screens :
         LET st == fetch_ui_state(shot)
             same_as_prev == _states_similar(prev_state, st,
                                             cfg.screenshot_ahash_threshold)
         IN  /\ focus_for_this_step' = pending_focus_ctx
             /\ pending_focus_ctx' = consume_pending(pending_focus_ctx)
             /\ state' = st
             /\ same_state_streak' = next_streak(prev_state, same_as_prev,
                                                 same_state_streak)
             /\ prev_state' = st
             /\ obs' = [obs EXCEPT !.same_tap_run =
                           @ /\ (~prev_state.some \/ prev_state.image_b64 = shot.id)]
    /\ pc' = "ask"
    /\ UNCHANGED << engine, cfg, device, click_range, step, outcome, history,
                    last_tap_point, action, err, attempt, recovered_from_invalid,
                    target, i, any_success, final_point, ok, ui_changed,
                    final_tap_point, post_state >>

\* vlm.chat_with_images, _extract_answer, parse_action and the finish test.
AgentAsk ==
    /\ engine = "agent" /\ pc = "ask"
    /\ \E answer \in Answers :
         LET a == parse_action(answer)
         IN  /\ action' = a
             /\ obs' = [obs EXCEPT !.requests = @ + 1,
                           !.request_focus = focus_for_this_step,
                           !.finish_step = IF a.kind = "finish" THEN step ELSE @,
                           !.same_tap_run = @ /\ answer = RawTap(400, 900)]
             /\ err' = IF a.kind = "invalid" THEN a.reason ELSE err
             /\ IF a.kind = "finish"
                THEN pc' = "done" /\ outcome' = "finished"
                ELSE /\ pc' = IF a.kind = "invalid" THEN "recover" ELSE "dispatch"
                     /\ outcome' = outcome
    /\ attempt' = 0
    /\ recovered_from_invalid' = FALSE
    /\ UNCHANGED << engine, cfg, device, click_range, step, history, prev_state,
                    state, same_state_streak, last_tap_point, pending_focus_ctx,
                    focus_for_this_step, target, i, any_success, final_point,
                    ok, ui_changed, final_tap_point, post_state >>

\* A recovery loop that runs once more.
recover_attempts_one_more(invalid_action_retry) == Max(0, invalid_action_retry) + 1

\* Number of iterations of "for attempt in range(1, max(0, retry) + 1)".
recover_attempts(invalid_action_retry) == Max(0, invalid_action_retry)

\* A recovery loop that goes on after a usable answer.
AgentReprompt_keeps_asking ==
    /\ engine = "agent" /\ pc = "recover"
    /\ attempt < recover_attempts(cfg.invalid_action_retry)
    /\ \E answer2 \in Answers :
         LET action2 == parse_action(answer2)
         IN  /\ obs' = [obs EXCEPT !.requests = @ + 1,
                           !.request_focus = focus_for_this_step,
                           !.finish_step = IF action2.kind = "finish" THEN step ELSE @,
                           !.same_tap_run = FALSE]
             /\ attempt' = attempt + 1
             /\ IF action2.kind # "invalid"
                THEN /\ action' = action2
                     /\ recovered_from_invalid' = TRUE
                     /\ pc' = IF attempt' < recover_attempts(cfg.invalid_action_retry)
                              THEN "recover" ELSE "dispatch"
                ELSE UNCHANGED << action, recovered_from_invalid, pc >>
    /\ UNCHANGED << engine, cfg, device, click_range, step, outcome, history,
                    prev_state, state, same_state_streak, last_tap_point,
                    pending_focus_ctx, focus_for_this_step, err, target, i,
                    any_success, final_point, ok, ui_changed, final_tap_point,
                    post_state >>

\* One iteration of the recovery loop: the stricter re-prompt.
AgentReprompt ==
    /\ engine = "agent" /\ pc = "recover"
    /\ attempt < recover_attempts(cfg.invalid_action_retry)
    /\ \E answer2 \in Answers :
         LET action2 == parse_action(answer2)
         IN  /\ obs' = [obs EXCEPT !.requests = @ + 1,
                           !.request_focus = focus_for_this_step,
                           !.finish_step = IF action2.kind = "finish" THEN step ELSE @,
                           !.same_tap_run = FALSE]
             /\ attempt' = attempt + 1
             /\ IF action2.kind # "invalid"
                THEN /\ action' = action2
                     /\ recovered_from_invalid' = TRUE
                     /\ pc' = "dispatch"
                ELSE UNCHANGED << action, recovered_from_invalid, pc >>
    /\ UNCHANGED << engine, cfg, device, click_range, step, outcome, history,
                    prev_state, state, same_state_streak, last_tap_point,
                    pending_focus_ctx, focus_for_this_step, err, target, i,
                    any_success, final_point, ok, ui_changed, final_tap_point,
                    post_state >>

\* A history line; the model keeps the step number the line starts with.
history_line(stepno) == [step |-> stepno]

\* A loop that drops the record of a step whose answer stayed invalid.
AgentUnrecovered_unrecorded ==
    /\ engine = "agent" /\ pc = "recover"
    /\ attempt >= recover_attempts(cfg.invalid_action_retry)
    /\ history' = history
    /\ LoopNext
    /\ obs' = StepObs(obs)
    /\ UNCHANGED << engine, cfg, device, click_range, prev_state, state,
                    same_state_streak, last_tap_point, pending_focus_ctx,
                    focus_for_this_step >>

\* "if not recovered": the step is recorded and the loop continues.
AgentUnrecovered ==
    /\ engine = "agent" /\ pc = "recover"
    /\ attempt >= recover_attempts(cfg.invalid_action_retry)
    /\ history' = Append(history, history_line(step))
    /\ LoopNext
    /\ obs' = StepObs(obs)
    /\ UNCHANGED << engine, cfg, device, click_range, prev_state, state,
                    same_state_streak, last_tap_point, pending_focus_ctx,
                    focus_for_this_step >>

\* action["kind"] == "tap": the loop guard, then _tap_with_retry is entered.
AgentDispatchTap ==
    /\ engine = "agent" /\ pc = "dispatch" /\ action.kind = "tap"
    /\ LET guard == drift_too_small(action.x, action.y, same_state_streak,
                                    last_tap_point, cfg.min_tap_drift_px)
           t == IF guard
                THEN force_drift(action.x, action.y, cfg.min_tap_drift_px, click_range)
                ELSE Pt(action.x, action.y)
       IN  /\ target' = t
           /\ final_point' = t
           /\ obs' = [obs EXCEPT !.nudged = guard, !.ladder = "running"]
    /\ i' = 0
    /\ any_success' = FALSE
    /\ ok' = FALSE
    /\ ui_changed' = FALSE
    /\ final_tap_point' = NoPoint
    /\ post_state' = NoState
    /\ pc' = "ladder"
    /\ UNCHANGED << engine, cfg, device, click_range, step, outcome, history,
                    prev_state, state, same_state_streak, last_tap_point,
                    pending_focus_ctx, focus_for_this_step, action, err, attempt,
                    recovered_from_invalid >>

\* _tap_with_retry returns to run_agent, which keeps the final point.
LadderReturn(r_ok, r_changed, r_point) ==
    /\ ok' = r_ok
    /\ ui_changed' = r_changed
    /\ final_tap_point' = r_point
    /\ last_tap_point' = r_point
    /\ pc' = "post"

\* One iteration of the ladder whose click is answered with a status other
\* than 200: "if not ok: continue".
TapAttemptFailed ==
    /\ engine = "agent" /\ pc = "ladder"
    /\ i < ladder_attempts(cfg.tap_retry_on_no_change)
    /\ LET p == ladder_point(target.x, target.y, i, click_range)
       IN  /\ final_point' = p
           /\ obs' = [Sent(obs, "click", << p >>) EXCEPT !.taps = @ + 1]
    /\ i' = i + 1
    /\ UNCHANGED << engine, cfg, device, click_range, step, outcome, history,
                    prev_state, state, same_state_streak, last_tap_point,
                    pending_focus_ctx, focus_for_this_step, action, err, attempt,
                    recovered_from_invalid, target, any_success, ok, ui_changed,
                    final_tap_point, post_state, pc >>

\* One iteration of the ladder whose click succeeds: the settle wait, the
\* re-capture and the comparison with the pre-tap state.
TapAttemptOk ==
    /\ engine = "agent" /\ pc = "ladder"
    /\ i < ladder_attempts(cfg.tap_retry_on_no_change)
    /\ \E shot \in Screens :
         LET p == ladder_point(target.x, target.y, i, click_range)
             same == _states_similar(state, fetch_ui_state(shot),
                                     cfg.screenshot_ahash_threshold)
             o == [Sent(obs, "click", << p >>) EXCEPT !.taps = @ + 1,
                      !.same_tap_run = @ /\ shot.id = state.image_b64]
         IN  /\ final_point' = p
             /\ any_success' = TRUE
             /\ IF ~same
                THEN /\ LadderReturn(TRUE, TRUE, p)
                     /\ obs' = [o EXCEPT !.saw_change = TRUE, !.ladder = "returned"]
                     /\ i' = i
                ELSE /\ i' = i + 1
                     /\ obs' = o
                     /\ UNCHANGED << ok, ui_changed, final_tap_point,
                                     last_tap_point, pc >>
    /\ UNCHANGED << engine, cfg, device, click_range, step, outcome, history,
                    prev_state, state, same_state_streak, pending_focus_ctx,
                    focus_for_this_step, action, err, attempt,
                    recovered_from_invalid, target, post_state >>

\* The ladder is exhausted: return any_success, last_body, False, final_point.
TapExhausted ==
    /\ engine = "agent" /\ pc = "ladder"
    /\ i >= ladder_attempts(cfg.tap_retry_on_no_change)
    /\ LadderReturn(any_success, FALSE, final_point)
    /\ obs' = [obs EXCEPT !.ladder = "returned"]
    /\ UNCHANGED << engine, cfg, device, click_range, step, outcome, history,
                    prev_state, state, same_state_streak, pending_focus_ctx,
                    focus_for_this_step, action, err, attempt,
                    recovered_from_invalid, target, i, any_success, final_point,
                    post_state >>

\* The click went through and the re-capture raised (HTTP status, content type
\* or URLError in get_ui_screenshot): the exception leaves the ladder.
TapFetchRaise ==
    /\ engine = "agent" /\ pc = "ladder"
    /\ i < ladder_attempts(cfg.tap_retry_on_no_change)
    /\ \E why \in {"protocol", "transport"} :
         LET p == ladder_point(target.x, target.y, i, click_range)
         IN  /\ final_point' = p
             /\ obs' = [Sent(obs, "click", << p >>) EXCEPT !.taps = @ + 1,
                           !.raised = TRUE, !.cause = why]
    /\ any_success' = TRUE
    /\ Fatal
    /\ UNCHANGED << engine, cfg, device, click_range, step, history, prev_state,
                    state, same_state_streak, last_tap_point, pending_focus_ctx,
                    focus_for_this_step, action, err, attempt,
                    recovered_from_invalid, target, i, ok, ui_changed,
                    final_tap_point, post_state >>

\* The branches of the if/elif chain other than tap leave these alone.
NoLadder ==
    UNCHANGED << engine, cfg, device, click_range, step, outcome, history,
                 prev_state, state, same_state_streak, pending_focus_ctx,
                 focus_for_this_step, action, err, attempt,
                 recovered_from_invalid, target, i, any_success, final_point >>

\* action["kind"] == "swipe"
AgentDispatchSwipe ==
    /\ engine = "agent" /\ pc = "dispatch" /\ action.kind = "swipe"
    /\ \E r \in BOOLEAN : ok' = r
    /\ obs' = Sent(obs, "swipe", << Pt(action.sx, action.sy), Pt(action.ex, action.ey) >>)
    /\ last_tap_point' = NoPoint
    /\ ui_changed' = FALSE
    /\ final_tap_point' = NoPoint
    /\ post_state' = NoState
    /\ pc' = "post"
    /\ NoLadder

\* action["kind"] == "type"
AgentDispatchType ==
    /\ engine = "agent" /\ pc = "dispatch" /\ action.kind = "type"
    /\ \E r \in BOOLEAN : ok' = r
    /\ obs' = Sent(obs, "input", << >>)
    /\ last_tap_point' = NoPoint
    /\ ui_changed' = FALSE
    /\ final_tap_point' = NoPoint
    /\ post_state' = NoState
    /\ pc' = "post"
    /\ NoLadder

\* action["kind"] == "wait"
AgentDispatchWait ==
    /\ engine = "agent" /\ pc = "dispatch" /\ action.kind = "wait"
    /\ ok' = TRUE
    /\ last_tap_point' = NoPoint
    /\ ui_changed' = FALSE
    /\ final_tap_point' = NoPoint
    /\ post_state' = NoState
    /\ pc' = "post"
    /\ obs' = obs
    /\ NoLadder

\* No branch of the if/elif chain matches (a finish intent adopted from the
\* stricter re-prompt): ok stays False and nothing is executed.
AgentDispatchNone ==
    /\ engine = "agent" /\ pc = "dispatch"
    /\ action.kind \notin {"tap", "swipe", "type", "wait"}
    /\ ok' = FALSE
    /\ ui_changed' = FALSE
    /\ final_tap_point' = NoPoint
    /\ post_state' = NoState
    /\ pc' = "post"
    /\ UNCHANGED << last_tap_point, obs >>
    /\ NoLadder

\* "if post_state_check and ok": the post-action capture and comparison.
AgentPostCheck ==
    /\ engine = "agent" /\ pc = "post"
    /\ cfg.post_state_check /\ ok
    /\ \E shot \in Screens :
         LET post == fetch_ui_state(shot)
             post_same == _states_similar(state, post, cfg.screenshot_ahash_threshold)
         IN  /\ post_state' = post
             /\ ui_changed' = (ui_changed \/ ~post_same)
             /\ obs' = [obs EXCEPT !.same_tap_run = @ /\ shot.id = state.image_b64]
    /\ pc' = "focus"
    /\ UNCHANGED << engine, cfg, device, click_range, step, outcome, history,
                    prev_state, state, same_state_streak, last_tap_point,
                    pending_focus_ctx, focus_for_this_step, action, err, attempt,
                    recovered_from_invalid, target, i, any_success, final_point,
                    ok, final_tap_point >>

\* The post-action check is switched off or the action failed.
AgentPostSkip ==
    /\ engine = "agent" /\ pc = "post"
    /\ ~(cfg.post_state_check /\ ok)
    /\ pc' = "focus"
    /\ UNCHANGED << engine, cfg, device, click_range, step, outcome, history,
                    prev_state, state, same_state_streak, last_tap_point,
                    pending_focus_ctx, focus_for_this_step, action, err, attempt,
                    recovered_from_invalid, target, i, any_success, final_point,
                    ok, ui_changed, final_tap_point, post_state, obs >>

\* A tail that prepares a focus crop after every delivered tap.
tap_ineffective_any_tap(kind, r_ok, changed, point) ==
    kind = "tap" /\ r_ok /\ point.some

\* Whether the tail of the step prepares a focus crop.
tap_ineffective(kind, r_ok, changed, point) ==
    kind = "tap" /\ r_ok /\ ~changed /\ point.some

\* The screenshots the focus crop may be cut from: the post-check capture, or
\* a fresh screenshot when there is none.
focus_bases(post) ==
    IF ~post.some \/ post.source # "screenshot" THEN {sc.id : sc \in Screens}
    ELSE {post.image_b64}

\* A tail that centres the focus crop on the first point of the ladder.
AgentFocusBuild_first_point ==
    /\ engine = "agent" /\ pc = "focus"
    /\ tap_ineffective(action.kind, ok, ui_changed, final_tap_point)
    /\ \E focus_base_b64 \in focus_bases(post_state) :
         pending_focus_ctx' =
             build_focus_context(focus_base_b64, target.x, target.y, step,
                                 cfg.focus_radius_px, cfg.focus_expand_step_px,
                                 cfg.focus_max_radius_px)
    /\ history' = Append(history, history_line(step))
    /\ LoopNext
    /\ obs' = StepObs(obs)
    /\ UNCHANGED << engine, cfg, device, click_range, prev_state, state,
                    same_state_streak, last_tap_point, focus_for_this_step >>

\* Tail of the loop body after an ineffective tap: the focus crop is built,
\* the history line appended.
AgentFocusBuild ==
    /\ engine = "agent" /\ pc = "focus"
    /\ tap_ineffective(action.kind, ok, ui_changed, final_tap_point)
    /\ \E focus_base_b64 \in focus_bases(post_state) :
         pending_focus_ctx' =
             build_focus_context(focus_base_b64, final_tap_point.x,
                                 final_tap_point.y, step, cfg.focus_radius_px,
                                 cfg.focus_expand_step_px, cfg.focus_max_radius_px)
    /\ history' = Append(history, history_line(step))
    /\ LoopNext
    /\ obs' = StepObs(obs)
    /\ UNCHANGED << engine, cfg, device, click_range, prev_state, state,
                    same_state_streak, last_tap_point, focus_for_this_step >>

\* Tail of the loop body otherwise: no focus crop, the history line appended.
AgentFocusSkip ==
    /\ engine = "agent" /\ pc = "focus"
    /\ ~tap_ineffective(action.kind, ok, ui_changed, final_tap_point)
    /\ pending_focus_ctx' = NoFocus
    /\ history' = Append(history, history_line(step))
    /\ LoopNext
    /\ obs' = StepObs(obs)
    /\ UNCHANGED << engine, cfg, device, click_range, prev_state, state,
                    same_state_streak, last_tap_point, focus_for_this_step >>

\* Where run_agent is about to call a service: the call may raise HttpError
\* (URLError, or for the screenshot and the model any HTTP error), or the
\* answer may fail to decode; nothing in run_agent catches it and main turns
\* it into exit code 1.
AgentCallSite ==
    \/ pc \in {"start", "fetch", "ask"}
    \/ pc = "recover" /\ attempt < recover_attempts(cfg.invalid_action_retry)
    \/ pc = "dispatch" /\ action.kind \in {"swipe", "type"}
    \/ pc = "ladder" /\ i < ladder_attempts(cfg.tap_retry_on_no_change)
    \/ pc = "post" /\ cfg.post_state_check /\ ok
    \/ pc = "focus" /\ tap_ineffective(action.kind, ok, ui_changed, final_tap_point)
                    /\ ~post_state.some

\* The control endpoints (click, swipe, input) hand a status other than 200
\* back as ok = False; every other call raises on it.
raise_causes(at) ==
    IF at \in {"dispatch", "ladder"} THEN {"transport"}
    ELSE {"protocol", "transport"}

AgentRaise ==
    /\ engine = "agent"
    /\ AgentCallSite
    /\ Fatal
    /\ \E why \in raise_causes(pc) : obs' = [obs EXCEPT !.raised = TRUE, !.cause = why]
    /\ UNCHANGED << engine, cfg, device, click_range, step, history, prev_state,
                    state, same_state_streak, last_tap_point, pending_focus_ctx,
                    focus_for_this_step, action, err, attempt,
                    recovered_from_invalid, target, i, any_success, final_point,
                    ok, ui_changed, final_tap_point, post_state >>

NextAgent ==
    \/ AgentStart
    \/ AgentFetch
    \/ AgentAsk
    \/ AgentReprompt
    \/ AgentUnrecovered
    \/ AgentDispatchTap
    \/ TapAttemptFailed
    \/ TapAttemptOk
    \/ TapExhausted
    \/ TapFetchRaise
    \/ AgentDispatchSwipe
    \/ AgentDispatchType
    \/ AgentDispatchWait
    \/ AgentDispatchNone
    \/ AgentPostCheck
    \/ AgentPostSkip
    \/ AgentFocusBuild
    \/ AgentFocusSkip
    \/ AgentRaise

\* ---------------------------------------------------------------- run_controller

\* Defaults of the grid settings; every explored set-up keeps them.
grid_min_segments == 3

grid_max_segments == 12

\* exp(grid_target_log_error) for the default 0.2, to four decimals; no
\* explored grid has a cell aspect that close to the threshold.
grid_target == Ratio(12214, 10000)

DefaultCtlCfg == [max_steps |-> MaxSteps, default_wait |-> 2]

CtlSetups ==
    { [cfg |-> [DefaultCtlCfg EXCEPT !.max_steps = n], device |-> d] :
          n \in 0..MaxSteps, d \in {FullRange, NarrowRange} }

Send == << "S", "e", "n", "d" >>

SearchBar == << "S", "e", "a", "r", "c", "h", " ", "b", "a", "r" >>

\* Planner answers the model service gives.
CtlAnswers ==
    { Reply(TRUE, TRUE, "stop", [NoFields EXCEPT !.action = SomeStr("finish")]),
      Reply(TRUE, TRUE, "stop",
            [NoFields EXCEPT !.action = SomeStr("type"), !.text = "hello",
                             !.enterAction = SomeStr("send")]),
      Reply(TRUE, TRUE, "stop",
            [NoFields EXCEPT !.action = SomeStr("swipe"),
                             !.startX = SomeInt(5000), !.startY = SomeInt(-40),
                             !.endX = SomeInt(540), !.endY = SomeInt(9000),
                             !.durationMs = SomeInt(20)]),
      Reply(TRUE, TRUE, "stop",
            [NoFields EXCEPT !.action = SomeStr("swipe"), !.direction = "up"]),
      Reply(TRUE, TRUE, "stop",
            [NoFields EXCEPT !.action = SomeStr("swipe"), !.direction = "left"]),
      Reply(TRUE, TRUE, "stop",
            [NoFields EXCEPT !.action = SomeStr("swipe"),
                             !.startRegion = SomeInt(17), !.endRegion = SomeInt(-2),
                             !.startXRatio = SomeRatio(5, 4),
                             !.endYRatio = SomeRatio(1, 4)]),
      Reply(TRUE, TRUE, "stop",
            [NoFields EXCEPT !.action = SomeStr("tap"), !.target = Send,
                             !.region = SomeInt(5),
                             !.regions = SomeRegions(<< 5, 6 >>)]),
      Reply(TRUE, TRUE, "stop",
            [NoFields EXCEPT !.action = SomeStr("tap"), !.target = SearchBar,
                             !.region = SomeInt(2)]),
      Reply(FALSE, FALSE, "length",
            [NoFields EXCEPT !.action = SomeStr("tap"), !.target = Send,
                             !.regions = SomeRegions(<< 5, 6 >>)]),
      Reply(FALSE, TRUE, "length",
            [NoFields EXCEPT !.action = SomeStr("tap"), !.target = Send,
                             !.region = SomeInt(5),
                             !.regions = SomeRegions(<< 5 >>)]),
      Reply(TRUE, TRUE, "stop",
            [NoFields EXCEPT !.action = SomeStr("wait"), !.waitSec = SomeInt(30)]),
      Reply(TRUE, TRUE, "stop", [NoFields EXCEPT !.action = SomeStr("scroll")]),
      Reply(FALSE, TRUE, "stop", NoFields) }

\* Answers to the regions-repair prompt.
RepairAnswers ==
    { Reply(TRUE, TRUE, "stop", [NoFields EXCEPT !.regions = SomeRegions(<< 8, 7 >>)]),
      Reply(FALSE, TRUE, "stop", NoFields) }

\* Answers to the stage-2 prompt: x_ratio and y_ratio of a JSON object, or
\* text that is not JSON.
Stage2Answers ==
    { [json |-> TRUE, x_ratio |-> SomeRatio(1, 2), y_ratio |-> SomeRatio(1, 2)],
      [json |-> TRUE, x_ratio |-> SomeRatio(5, 4), y_ratio |-> SomeRatio(-1, 4)],
      [json |-> TRUE, x_ratio |-> SomeRatio(0, 1), y_ratio |-> NoRatio],
      [json |-> FALSE, x_ratio |-> SomeRatio(1, 4), y_ratio |-> SomeRatio(1, 4)] }

\* str(planner.get("action", "wait")).strip().lower(), then the aliases of
\* ime_input.  The explored answers spell the action in lower case without
\* surrounding blanks.
ctl_action(planner) ==
    LET a == IF planner.action.some THEN planner.action.v ELSE "wait"
    IN  IF a \in {"type", "input", "text", "ime", "imeinput"} THEN "ime_input" ELSE a

\* The history line of a step, by the step, the action and ok.
ctl_history_line(stepno, kind, sent_ok) ==
    [step |-> stepno, kind |-> kind, ok |-> sent_ok]

InitController ==
    /\ engine = "controller"
    /\ \E su \in CtlSetups : cfg = su.cfg /\ device = su.device
    /\ click_range = [xMin |-> 0, yMin |-> 0, xMax |-> 0, yMax |-> 0]
    /\ pc = "start"
    /\ step = 0
    /\ outcome = "running"
    /\ history = << >>
    /\ prev_state = NoState
    /\ state = NoState
    /\ same_state_streak = 0
    /\ last_tap_point = NoPoint
    /\ pending_focus_ctx = NoFocus
    /\ focus_for_this_step = NoFocus
    /\ action = IntentBase
    /\ err = ""
    /\ attempt = 0
    /\ recovered_from_invalid = FALSE
    /\ target = NoPoint
    /\ i = 0
    /\ any_success = FALSE
    /\ final_point = NoPoint
    /\ ok = FALSE
    /\ ui_changed = FALSE
    /\ final_tap_point = NoPoint
    /\ post_state = NoState
    /\ obs = ObsInit

\* The variables only run_agent uses.
agent_locals ==
    << prev_state, state, same_state_streak, last_tap_point, pending_focus_ctx,
       focus_for_this_step, action, err, attempt, recovered_from_invalid,
       target, i, any_success, final_point, ok, ui_changed, final_tap_point,
       post_state >>

\* client.get_click_range() succeeded.
CtlStart ==
    /\ engine = "controller"
    /\ pc = "start"
    /\ click_range' = device
    /\ pc' = "loop"
    /\ UNCHANGED << engine, cfg, device, step, outcome, history, obs, agent_locals >>

\* for step in range(1, max_steps + 1): the loop is left when the budget is
\* used up (return 2).
CtlExhausted ==
    /\ engine = "controller"
    /\ pc = "loop"
    /\ step >= cfg.max_steps
    /\ pc' = "done"
    /\ outcome' = "exhausted"
    /\ UNCHANGED << engine, cfg, device, click_range, step, history, obs, agent_locals >>

\* The head of one iteration: screenshot, grid, planner request.
CtlPlanned(raw) ==
    /\ engine = "controller"
    /\ pc = "loop"
    /\ step < cfg.max_steps
    /\ step' = step + 1
    /\ raw \in CtlAnswers

\* The grid of a step: every screenshot has the size of Frame.
CtlGrid ==
    _choose_adaptive_grid(Frame.w, Frame.h, grid_min_segments,
                          grid_max_segments, grid_target)

\* if action == "finish": return 0
CtlFinish ==
    /\ \E raw \in CtlAnswers :
          /\ CtlPlanned(raw)
          /\ ctl_action(planner_of(raw)) = "finish"
    /\ pc' = "done"
    /\ outcome' = "finished"
    /\ obs' = [StepObs(obs) EXCEPT !.requests = 1, !.finish_step = step + 1]
    /\ UNCHANGED << engine, cfg, device, click_range, history, agent_locals >>

\* if action == "ime_input": one input command, sent_ok is status == 200.
CtlImeInput ==
    /\ \E raw \in CtlAnswers, sent_ok \in BOOLEAN :
          /\ CtlPlanned(raw)
          /\ ctl_action(planner_of(raw)) = "ime_input"
          /\ obs' = [Sent(StepObs(obs), "input", << >>) EXCEPT !.requests = 1]
          /\ history' = Append(history, ctl_history_line(step + 1, "ime_input", sent_ok))
    /\ pc' = "loop"
    /\ UNCHANGED << engine, cfg, device, click_range, outcome, agent_locals >>

\* int(n * 0.72) and the like for a frame dimension n: percent hundredths.
percent(n, hundredths) == (n * hundredths) \div 100

\* The start and end point of a swipe before clamping (sx, sy, ex, ey).
swipe_points(planner, grid, width, height) ==
    IF planner.startX.some /\ planner.startY.some /\ planner.endX.some /\ planner.endY.some
    THEN << Pt(_safe_int(planner.startX, width \div 2),
               _safe_int(planner.startY, percent(height, 72))),
            Pt(_safe_int(planner.endX, width \div 2),
               _safe_int(planner.endY, percent(height, 32))) >>
    ELSE IF planner.direction = "up"
    THEN << Pt(width \div 2, percent(height, 72)), Pt(width \div 2, percent(height, 32)) >>
    ELSE IF planner.direction = "down"
    THEN << Pt(width \div 2, percent(height, 32)), Pt(width \div 2, percent(height, 72)) >>
    ELSE IF planner.direction = "left"
    THEN << Pt(percent(width, 75), height \div 2), Pt(percent(width, 25), height \div 2) >>
    ELSE IF planner.direction = "right"
    THEN << Pt(percent(width, 25), height \div 2), Pt(percent(width, 75), height \div 2) >>
    ELSE << _point_from_region_ratio(
                _clamp(_safe_int(planner.startRegion, 8), 1, grid.cells),
                grid.rows, grid.cols, width, height,
                _safe_float(planner.startXRatio, Ratio(1, 2)),
                _safe_float(planner.startYRatio, Ratio(1, 2))),
            _point_from_region_ratio(
                _clamp(_safe_int(planner.endRegion, 2), 1, grid.cells),
                grid.rows, grid.cols, width, height,
                _safe_float(planner.endXRatio, Ratio(1, 2)),
                _safe_float(planner.endYRatio, Ratio(1, 2))) >>

\* x = _clamp(x, click_range.x_min, click_range.x_max), the same for y
clamp_point(p, cr) ==
    Pt(_clamp(p.x, cr.xMin, cr.xMax), _clamp(p.y, cr.yMin, cr.yMax))

\* if action == "swipe": one swipe command between the clamped points.
CtlSwipe ==
    /\ \E raw \in CtlAnswers, sent_ok \in BOOLEAN :
          LET pts == swipe_points(planner_of(raw), CtlGrid, Frame.w, Frame.h)
              sent == << clamp_point(pts[1], click_range), clamp_point(pts[2], click_range) >>
          IN  /\ CtlPlanned(raw)
              /\ ctl_action(planner_of(raw)) = "swipe"
              /\ obs' = [Sent(StepObs(obs), "swipe", sent) EXCEPT !.requests = 1]
              /\ history' = Append(history, ctl_history_line(step + 1, "swipe", sent_ok))
    /\ pc' = "loop"
    /\ UNCHANGED << engine, cfg, device, click_range, outcome, agent_locals >>

\* A repair that is asked for only when no region was parsed.
need_regions_repair_when_none(raw) ==
    /\ raw.finish_reason = "length" \/ _has_unclosed_regions_array(raw)
    /\ Len(_parse_regions_value(planner_of(raw).regions)) <= 0

\* need_regions_repair
need_regions_repair(raw) ==
    /\ raw.finish_reason = "length" \/ _has_unclosed_regions_array(raw)
    /\ Len(_parse_regions_value(planner_of(raw).regions)) <= 1

\* The planner object after the answer to the repair prompt was merged in.
repaired(planner, repair_raw) ==
    LET parsed_regions == _parse_regions_value(planner.regions)
        repair_regions == _parse_regions_value(planner_of(repair_raw).regions)
        merged == sorted(Range(parsed_regions \o repair_regions))
    IN  IF repair_regions = << >> THEN planner
        ELSE [planner EXCEPT
                 !.regions = SomeRegions(merged),
                 !.region = IF planner.region.some THEN planner.region
                            ELSE SomeInt(merged[1])]

\* The stage-2 ratios and the point they give inside the covering box.
stage2_point(box, s2) ==
    LET xr == clamp01(IF s2.json THEN _safe_float(s2.x_ratio, Ratio(1, 2)) ELSE Ratio(1, 2))
        yr == clamp01(IF s2.json THEN _safe_float(s2.y_ratio, Ratio(1, 2)) ELSE Ratio(1, 2))
    IN  Pt(scaled(box.left, xr, Max(1, box.right - box.left - 1)),
           scaled(box.top, yr, Max(1, box.bottom - box.top - 1)))

\* The tap point: the stage-2 point of the covering box, clamped.
tap_point(planner, grid, width, height, s2, cr) ==
    clamp_point(
        stage2_point(
            _rect_cover_from_regions(planner, grid.rows, grid.cols, width, height).box,
            s2),
        cr)

\* if action == "tap": optional repair request, stage-2 request, one click.
CtlTap ==
    /\ \E raw \in CtlAnswers, repair_raw \in RepairAnswers, s2 \in Stage2Answers,
          sent_ok \in BOOLEAN :
          LET planner == IF need_regions_repair(raw)
                         THEN repaired(planner_of(raw), repair_raw)
                         ELSE planner_of(raw)
              sent == << tap_point(planner, CtlGrid, Frame.w, Frame.h, s2, click_range) >>
          IN  /\ CtlPlanned(raw)
              /\ ctl_action(planner_of(raw)) = "tap"
              /\ obs' = [Sent(StepObs(obs), "click", sent) EXCEPT
                            !.requests = IF need_regions_repair(raw) THEN 3 ELSE 2,
                            !.planner_raw = raw,
                            !.repair_raw = IF need_regions_repair(raw)
                                           THEN repair_raw ELSE @,
                            !.planner = planner]
              /\ history' = Append(history, ctl_history_line(step + 1, "tap", sent_ok))
    /\ pc' = "loop"
    /\ UNCHANGED << engine, cfg, device, click_range, outcome, agent_locals >>

\* Any other action: wait.
CtlWait ==
    /\ \E raw \in CtlAnswers :
          /\ CtlPlanned(raw)
          /\ ctl_action(planner_of(raw)) \notin {"finish", "ime_input", "swipe", "tap"}
          /\ obs' = [StepObs(obs) EXCEPT !.requests = 1]
          /\ history' = Append(history, ctl_history_line(step + 1, "wait", TRUE))
    /\ pc' = "loop"
    /\ UNCHANGED << engine, cfg, device, click_range, outcome, agent_locals >>

\* A service call of run_controller raises ControllerError (URLError, a
\* screenshot or system-info status other than 200, any HTTP error of the
\* model service) or the response fails to decode; main does not catch it.
CtlRaise ==
    /\ engine = "controller"
    /\ pc \in {"start", "loop"}
    /\ pc = "loop" => step < cfg.max_steps
    /\ step' = IF pc = "loop" THEN step + 1 ELSE step
    /\ Fatal
    /\ \E why \in {"protocol", "transport"} :
          obs' = [obs EXCEPT !.raised = TRUE, !.cause = why]
    /\ UNCHANGED << engine, cfg, device, click_range, history, agent_locals >>

NextController ==
    \/ CtlStart
    \/ CtlExhausted
    \/ CtlFinish
    \/ CtlImeInput
    \/ CtlSwipe
    \/ CtlTap
    \/ CtlWait
    \/ CtlRaise

Init == InitAgent \/ InitController

Next == NextAgent \/ NextController

Spec == Init /\ [][Next]_vars

\* ---------------------------------------------------------------- functions

\* A function of the source on its own: the call's arguments are held in cfg,
\* the call is one step, and its result is put in obs.
FnInit(name, args) ==
    /\ engine = name
    /\ cfg = args
    /\ device = FullRange
    /\ click_range = FullRange
    /\ pc = "call"
    /\ step = 0
    /\ outcome = "running"
    /\ history = << >>
    /\ prev_state = NoState
    /\ state = NoState
    /\ same_state_streak = 0
    /\ last_tap_point = NoPoint
    /\ pending_focus_ctx = NoFocus
    /\ focus_for_this_step = NoFocus
    /\ action = IntentBase
    /\ err = ""
    /\ attempt = 0
    /\ recovered_from_invalid = FALSE
    /\ target = NoPoint
    /\ i = 0
    /\ any_success = FALSE
    /\ final_point = NoPoint
    /\ ok = FALSE
    /\ ui_changed = FALSE
    /\ final_tap_point = NoPoint
    /\ post_state = NoState
    /\ obs = ObsInit

FnReturn(name, result) ==
    /\ engine = name
    /\ pc = "call"
    /\ pc' = "return"
    /\ obs' = result
    /\ UNCHANGED << engine, cfg, device, click_range, step, outcome, history,
                    agent_locals >>

\* UiState values: the captures of the modelled screens, two UI-tree dumps
\* (source "xml", compared by their signature), and None.
XmlState(sig) ==
    [some |-> TRUE, source |-> "xml", image_b64 |-> 0, state_sig |-> sig,
     screen_ahash |-> NoHash]

UiStates ==
    { fetch_ui_state(sc) : sc \in Screens } \cup { XmlState(11), XmlState(12), NoState }

\* The threshold is a value of screenshot_ahash_threshold:
\* int(agent_cfg.get(...)) takes any integer of the configuration file.
InitSimilar ==
    \E p \in UiStates, c \in UiStates, t \in {-1, 0, 6, 64} :
        FnInit("_states_similar", [prev |-> p, curr |-> c, ahash_threshold |-> t])

CallSimilar ==
    FnReturn("_states_similar",
             [same |-> _states_similar(cfg.prev, cfg.curr, cfg.ahash_threshold)])

SpecSimilar == InitSimilar /\ [][CallSimilar]_vars

\* Largest side of the small frames the grid functions are called with.
MaxSide == 8

\* Frame sides: the small ones and those of the modelled device.
Widths == 1..MaxSide \cup {Frame.w}

Heights == 1..MaxSide \cup {Frame.h}

\* Segment bounds as run_controller passes them: grid_min_segments is at
\* least 3 and grid_max_segments at least grid_min_segments.
InitGrid ==
    \E w \in Widths, h \in Heights,
       b \in { [min |-> lo, max |-> hi] : lo \in {3, 4}, hi \in {3, 4, 6, 12} }
                 \ { [min |-> 4, max |-> 3] } :
        FnInit("_choose_adaptive_grid",
               [width |-> w, height |-> h, min_segments |-> b.min,
                max_segments |-> b.max])

CallGrid ==
    FnReturn("_choose_adaptive_grid",
             _choose_adaptive_grid(cfg.width, cfg.height, cfg.min_segments,
                                   cfg.max_segments, grid_target))

SpecGrid == InitGrid /\ [][CallGrid]_vars

\* Longest "regions" list of a planner answer given to the region mapper.
MaxRegions == 2

\* Region numbers a planner answer names: none positive, the first cell, a
\* cell of the second row and a number past every grid.
RegionValues == {0, 1, 5, 200}

RECURSIVE RegionLists(_)
RegionLists(n) ==
    IF n = 0 THEN { << >> }
    ELSE RegionLists(n - 1)
             \cup { Append(q, r) : q \in { l \in RegionLists(n - 1) : Len(l) = n - 1 },
                                   r \in RegionValues }

\* Frames given to the region mapper: squares and frames of device height.
Frames ==
    { f \in { [w |-> w, h |-> h] : w \in Widths, h \in Heights } :
          f.h = f.w \/ f.h = Frame.h }

\* The region mapper is given a frame, the grid the partitioner returns for
\* it, a planner object and the ratios of a stage-2 answer.
InitMapper ==
    \E f \in Frames :
        \E g \in { _choose_adaptive_grid(f.w, f.h, grid_min_segments,
                                         grid_max_segments, grid_target) } :
            \E q \in RegionLists(MaxRegions),
               single \in {NoInt} \cup { SomeInt(r) : r \in RegionValues },
               t \in { << >>, SearchBar },
               xr \in { SomeRatio(-1, 4), SomeRatio(1, 2), SomeRatio(5, 4) },
               yr \in { SomeRatio(-1, 4), SomeRatio(1, 2), SomeRatio(5, 4) } :
                FnInit("region_mapper",
                       [width |-> f.w, height |-> f.h, grid |-> g,
                        planner |-> [NoFields EXCEPT
                                        !.regions = IF q = << >> THEN NoRegions
                                                    ELSE SomeRegions(q),
                                        !.region = single, !.target = t,
                                        !.startRegion = single,
                                        !.startXRatio = xr, !.startYRatio = yr],
                        s2 |-> [json |-> TRUE, x_ratio |-> xr, y_ratio |-> yr]])

\* The covering rectangle and its stage-2 point as the tap branch computes
\* them, and the box and point of the start region as the swipe branch does.
CallMapper ==
    LET cover == _rect_cover_from_regions(cfg.planner, cfg.grid.rows, cfg.grid.cols,
                                          cfg.width, cfg.height)
        start == _clamp(_safe_int(cfg.planner.startRegion, 8), 1, cfg.grid.cells)
    IN  FnReturn("region_mapper",
                 [cover |-> cover,
                  tap |-> stage2_point(cover.box, cfg.s2),
                  region |-> start,
                  region_box |-> _region_box(start, cfg.grid.rows, cfg.grid.cols,
                                             cfg.width, cfg.height),
                  swipe_start |-> swipe_points(cfg.planner, cfg.grid,
                                               cfg.width, cfg.height)[1]])

SpecMapper == InitMapper /\ [][CallMapper]_vars

\* Planner answers given to the parsing pipeline: complete objects and texts
\* that are not JSON (cut before or after the "]" of the regions array), with
\* and without each of the fields action, region, regions and direction.  A
\* text that parses as JSON has closed every array it opened.
PlannerTexts ==
    { raw \in
        { Reply(j, c, IF j THEN "stop" ELSE "length",
                [NoFields EXCEPT !.action = a, !.region = r, !.regions = q,
                                 !.direction = d]) :
              j \in BOOLEAN, c \in BOOLEAN,
              a \in { NoStr, SomeStr("tap"), SomeStr("swipe") },
              r \in { NoInt, SomeInt(5), SomeInt(-3) },
              q \in { NoRegions, SomeRegions(<< >>), SomeRegions(<< 5, 6 >>) },
              d \in { "", "up", "sideways" } } :
        raw.json => (raw.regions_closed \/ ~raw.fields.regions.some) }

InitPlanner ==
    \E raw \in PlannerTexts : FnInit("planner_of", [planner_raw |-> raw])

\* planner = _extract_json(planner_raw) or _extract_planner_fallback(planner_raw)
CallPlanner ==
    FnReturn("planner_of",
             [planner |-> planner_of(cfg.planner_raw),
              unclosed |-> _has_unclosed_regions_array(cfg.planner_raw)])

SpecPlanner == InitPlanner /\ [][CallPlanner]_vars

\* Answer texts given to parse_action: each head, each action name, and every
\* keyword argument present or absent, with short or oversized numbers.
InitParse ==
    \E h \in {"finish", "do", "other"},
       a \in {"Tap", "Swipe", "Type", "Type_Name", "Wait", "Back"},
       pe \in {NoPoint, Pt(400, 900)}, ps \in {NoPoint, Pt(500, 1500)},
       d \in {NoInt, SomeInt(20)}, t \in {NoStr, SomeStr("hi")}, big \in BOOLEAN :
        FnInit("parse_action",
               [answer |-> [RawBase EXCEPT
                               !.head = h, !.act = IF h = "do" THEN a ELSE "",
                               !.element = pe, !.start = ps, !.end = pe,
                               !.durationMs = d, !.duration = d, !.text = t,
                               !.message = t, !.oversized = big]])

CallParse == FnReturn("parse_action", parse_action(cfg.answer))

SpecParse == InitParse /\ [][CallParse]_vars

\* build_focus_context is called with a screenshot, a tap centre at a corner
\* or in the middle of the click range (the ranges of the explored devices
\* and the range run_agent takes when the device reports none), and radius
\* settings: the defaults, settings below the floors, and a wide expansion.
InitFocus ==
    \E sc \in Screens \cup {SmallScreen},
       cr \in { FullRange, NarrowRange,
                [xMin |-> 0, yMin |-> 0, xMax |-> 999, yMax |-> 999] },
       fx \in 0..2, fy \in 0..2,
       r \in { << 200, 50, 250 >>, << 5, 0, 0 >>, << 100, 500, 5000 >> } :
        FnInit("build_focus_context",
               [full_image_b64 |-> sc.id, click_range |-> cr,
                center_x |-> cr.xMin + (fx * (cr.xMax - cr.xMin)) \div 2,
                center_y |-> cr.yMin + (fy * (cr.yMax - cr.yMin)) \div 2,
                focus_radius_px |-> r[1], focus_expand_step_px |-> r[2],
                focus_max_radius_px |-> r[3]])

CallFocus ==
    FnReturn("build_focus_context",
             build_focus_context(cfg.full_image_b64, cfg.center_x, cfg.center_y, 1,
                                 cfg.focus_radius_px, cfg.focus_expand_step_px,
                                 cfg.focus_max_radius_px))

SpecFocus == InitFocus /\ [][CallFocus]_vars

\* ---------------------------------------------------------------- properties

\* The configuration is the default one, whatever the step budget.
IsDefaultCfg ==
    engine = "agent" /\ [cfg EXCEPT !.max_steps = MaxSteps] = DefaultAgentCfg

Manhattan(p, q) == Abs(p.x - q.x) + Abs(p.y - q.y)

InClickRange(p) ==
    /\ click_range.xMin <= p.x /\ p.x <= click_range.xMax
    /\ click_range.yMin <= p.y /\ p.y <= click_range.yMax

\* C1: in run_agent, once a finish intent was adopted (from the first answer
\* or from the stricter re-prompt) no later step is executed and the run does
\* not end with another outcome than finished.
C1_FinishEndsRun ==
    (engine = "agent" /\ obs.finish_step # 0)
        => (step = obs.finish_step /\ outcome \in {"running", "finished"})

\* C2: a run in which no call raised has executed at most max_steps steps when
\* it ends, and it ends either finished at the step where the finish action was
\* taken, or exhausted after step max_steps with no finish action taken.
C2_FinishedOrExhausted ==
    (pc = "done" /\ ~obs.raised)
        => /\ step <= cfg.max_steps
           /\ \/ outcome = "finished" /\ obs.finish_step = step
              \/ outcome = "exhausted" /\ step = cfg.max_steps /\ obs.finish_step = 0

\* C3: every point of the latest control command sent to the device (the tap
\* point, both end points of a swipe) lies within the reported click range.
C3_SentPointsInClickRange ==
    \A k \in 1..Len(obs.last_command.pts) : InClickRange(obs.last_command.pts[k])

\* C4: when _tap_with_retry returns and no post-tap state was judged changed,
\* it has made exactly min(retries + 1, ladder length) tap attempts and reports
\* changed = false.
C4_UnchangedLadderRunsOut ==
    (engine = "agent" /\ pc = "post" /\ obs.ladder = "returned" /\ ~obs.saw_change)
        => /\ obs.taps = Min(cfg.tap_retry_on_no_change + 1, Len(offsets))
           /\ ui_changed = FALSE

\* C4 witness: the default ladder ran its three attempts, a tap was delivered,
\* and no change was seen.
C4_Witness ==
    /\ engine = "agent" /\ pc = "post" /\ obs.ladder = "returned"
    /\ ~obs.saw_change /\ obs.taps = 3 /\ ok

\* C5: a tap ladder that was entered is left only after an attempt whose
\* post-tap state was judged changed, or after all allowed attempts were made.
C5_LadderEndsOnChangeOrExhaustion ==
    (engine = "agent" /\ obs.ladder # "none" /\ pc # "ladder")
        => \/ obs.saw_change
           \/ obs.taps = Min(cfg.tap_retry_on_no_change + 1, Len(offsets))

\* C6: when a tap is dispatched with a same-UI streak of at least 1 and a
\* retained last tap location, the target handed to _tap_with_retry is at
\* Manhattan distance of at least min_tap_drift_px from that location.
C6_TargetDriftsFromLastTap ==
    (engine = "agent" /\ pc = "ladder" /\ i = 0 /\ same_state_streak >= 1
         /\ last_tap_point.some)
        => Manhattan(target, last_tap_point) >= cfg.min_tap_drift_px

\* C7: with the default configuration, when every step so far answered the tap
\* (400,900) and every capture showed the same screen, the tap of the third
\* step is nudged, to a target at least 50 px away from (400,900).
C7_ThirdIdenticalTapIsNudged ==
    (IsDefaultCfg /\ device = FullRange /\ obs.same_tap_run /\ step = 3
         /\ pc = "ladder")
        => obs.nudged /\ Manhattan(target, Pt(400, 900)) >= 50

\* What C8 says of a single state: every model request of a step carries the
\* focus context the step took over at its head, that context was built at the
\* end of the step before, and no focus context is pending while a step is
\* under way.
FocusFromStepBefore ==
    engine = "agent"
        => /\ obs.requests > 0
                => /\ obs.request_focus = focus_for_this_step
                   /\ obs.request_focus.some => obs.request_focus.built_step = step - 1
           /\ pending_focus_ctx.some
                => /\ pc \in {"fetch", "done"}
                   /\ pending_focus_ctx.built_step \in {step - 1, step}

\* C8: the focus context pending at the head of a step is the one that step's
\* model requests carry (first prompt and stricter re-prompts), it was built at
\* the end of the step before, and it is no longer pending once the head has
\* run: no later step is given it.
C8_FocusServesNextStepOnly ==
    /\ []FocusFromStepBefore
    /\ [][(engine = "agent" /\ pc = "fetch" /\ pc' = "ask")
             => /\ focus_for_this_step' = pending_focus_ctx
                /\ ~pending_focus_ctx'.some]_vars

\* C8 witness: the stricter re-prompt of a step carries the focus context built
\* at the end of the step before.
C8_Witness ==
    /\ engine = "agent" /\ obs.requests = 2 /\ obs.request_focus.some
    /\ obs.request_focus.built_step = step - 1 /\ ~pending_focus_ctx.some

\* A step of run_agent ends: its tail or the unrecovered branch hands over to
\* the loop head or to "max steps reached".
EndOfStep ==
    /\ engine = "agent" /\ pc \in {"focus", "recover"}
    /\ pc' \in {"fetch", "done"} /\ outcome' # "fatal"

\* C9: a focus context is pending at the end of a step only if the step's
\* action was a tap, the tap was delivered, and neither the ladder nor the
\* post-action state check saw the UI change.
C9_FocusOnlyAfterIneffectiveTap ==
    [][(EndOfStep /\ pending_focus_ctx'.some)
          => /\ pc = "focus" /\ action.kind = "tap" /\ ok
             /\ ~ui_changed /\ ~obs.saw_change]_vars

\* C9 witness: a step has ended with a focus context pending.
C9_Witness ==
    /\ engine = "agent" /\ pc = "fetch" /\ pending_focus_ctx.some
    /\ pending_focus_ctx.built_step = step - 1

\* C10: with the default configuration a step whose first answer is invalid
\* issues one stricter re-prompt; if that answer is invalid too, the step has
\* made two model requests and sent no control command, it appends one history
\* line, and the loop goes on to the next step (or, at the last step, to "max
\* steps reached").
C10_InvalidTwiceIsNoOp ==
    [][(IsDefaultCfg /\ pc = "recover" /\ outcome' # "fatal")
          => IF attempt = 0
             THEN /\ obs.requests = 1 /\ obs'.requests = 2 /\ attempt' = 1
                  /\ obs'.commands = 0 /\ history' = history
                  /\ pc' \in {"recover", "dispatch"}
             ELSE /\ obs.requests = 2 /\ obs.commands = 0
                  /\ history' = Append(history, history_line(step))
                  /\ \/ step' = step + 1 /\ pc' = "fetch" /\ outcome' = "running"
                     \/ step = cfg.max_steps /\ pc' = "done" /\ outcome' = "exhausted"]_vars

\* C10 witness: the re-prompt of a step was answered with an invalid action
\* again.
C10_Witness ==
    /\ IsDefaultCfg /\ pc = "recover" /\ attempt = 1 /\ obs.requests = 2
    /\ action.kind = "invalid"

\* C11: a call answered with an unexpected status or content type during a
\* step does not end the run.
C11_ProtocolErrorKeepsRunning ==
    (obs.cause = "protocol" /\ step >= 1) => outcome # "fatal"

\* C12: a call that times out or cannot reach its service during a step
\* (after the click range was read) does not end the run.
C12_TransportErrorKeepsRunning ==
    (obs.cause = "transport" /\ step >= 1) => outcome # "fatal"

\* C13: two UI states of the same source with identical content are reported
\* the same by _states_similar, whatever the threshold.
C13_IdenticalStatesAreSame ==
    (engine = "_states_similar" /\ pc = "return" /\ cfg.prev.some
         /\ cfg.prev = cfg.curr)
        => obs.same

\* The rows and cols returned lie in the segment bounds and give cells wider
\* and higher than one pixel (width / cols > 1, height / rows > 1).
GridWithinBounds ==
    /\ cfg.min_segments <= obs.rows /\ obs.rows <= cfg.max_segments
    /\ cfg.min_segments <= obs.cols /\ obs.cols <= cfg.max_segments
    /\ cfg.width > obs.cols /\ cfg.height > obs.rows

\* C14 as stated: for every frame and all segment bounds _choose_adaptive_grid
\* returns rows and cols within the bounds with cells larger than one pixel.
C14_GridAlwaysWithinBounds ==
    (engine = "_choose_adaptive_grid" /\ pc = "return") => GridWithinBounds

\* C14 amended: when the frame is wider and higher than min_segments pixels
\* the returned rows and cols lie within the bounds with cells larger than one
\* pixel; for a smaller frame the result is the default 3 x 3.
C14_GridWithinBoundsOrDefault ==
    (engine = "_choose_adaptive_grid" /\ pc = "return")
        => IF cfg.width > cfg.min_segments /\ cfg.height > cfg.min_segments
           THEN GridWithinBounds /\ obs.cells = obs.rows * obs.cols
           ELSE obs.rows = 3 /\ obs.cols = 3 /\ obs.cells = 9

\* C14 witness: the grid of the device frame, 6 rows by 3 columns.
C14_Witness ==
    /\ engine = "_choose_adaptive_grid" /\ pc = "return"
    /\ cfg.width = Frame.w /\ cfg.height = Frame.h /\ cfg.max_segments = 12
    /\ obs.rows = 6 /\ obs.cols = 3

\* C15: the row range and the column range of the covering rectangle contain
\* the row and column of every region the planner named, and the covering
\* region set is exactly the cells of that rectangle, each once.
C15_CoverContainsRegions ==
    (engine = "region_mapper" /\ pc = "return")
        => LET m == obs.cover.rect_meta
               rect == { rr * cfg.grid.cols + cc + 1 : rr \in m[1]..m[2], cc \in m[3]..m[4] }
               RowOf(r) == (_clamp(r, 1, cfg.grid.cells) - 1) \div cfg.grid.cols
               ColOf(r) == (_clamp(r, 1, cfg.grid.cells) - 1) % cfg.grid.cols
               named == { r \in Range(cfg.planner.regions.v)
                                 \cup (IF cfg.planner.region.some
                                       THEN {cfg.planner.region.v} ELSE {}) : r > 0 }
           IN  /\ 0 <= m[1] /\ m[1] <= m[2] /\ m[2] < cfg.grid.rows
               /\ 0 <= m[3] /\ m[3] <= m[4] /\ m[4] < cfg.grid.cols
               /\ \A r \in named \cup Range(obs.cover.normalized) :
                      /\ m[1] <= RowOf(r) /\ RowOf(r) <= m[2]
                      /\ m[3] <= ColOf(r) /\ ColOf(r) <= m[4]
               /\ Range(obs.cover.rect_regions) = rect
               /\ Len(obs.cover.rect_regions) = Cardinality(rect)

\* C15 witness: regions 1 and 5 on the 6 x 3 grid of the device frame are
\* covered by the rectangle of rows 0..1 and columns 0..1, regions 1, 2, 4, 5.
C15_Witness ==
    /\ engine = "region_mapper" /\ pc = "return"
    /\ cfg.width = Frame.w /\ cfg.height = Frame.h
    /\ cfg.planner.regions = SomeRegions(<< 1, 5 >>)
    /\ obs.cover.rect_meta = << 0, 1, 0, 1 >>
    /\ obs.cover.rect_regions = << 1, 2, 4, 5 >>

\* C16: the pixel box of every region and of every covering rectangle, on
\* the grid the partitioner returns for the frame, satisfies
\* 0 <= left < right <= width and 0 <= top < bottom <= height, with
\* right = width at the last column and bottom = height at the last row.
C16_BoxInsideFrame ==
    (engine = "region_mapper" /\ pc = "return")
        => LET g == cfg.grid
               m == obs.cover.rect_meta
               Inside(box) ==
                   /\ 0 <= box.left /\ box.left < box.right /\ box.right <= cfg.width
                   /\ 0 <= box.top /\ box.top < box.bottom /\ box.bottom <= cfg.height
           IN  /\ Inside(obs.region_box)
               /\ Inside(obs.cover.box)
               /\ (obs.region - 1) % g.cols = g.cols - 1 => obs.region_box.right = cfg.width
               /\ (obs.region - 1) \div g.cols = g.rows - 1 => obs.region_box.bottom = cfg.height
               /\ m[4] = g.cols - 1 => obs.cover.box.right = cfg.width
               /\ m[2] = g.rows - 1 => obs.cover.box.bottom = cfg.height

\* C17: for every non-empty pixel box the region mapper produces and every
\* ratio pair, the point left + ratio * (box width - 1), top + ratio * (box
\* height - 1) computed before click-range clamping lies in the box:
\* left <= x < right and top <= y < bottom.
C17_PointInsideBox ==
    (engine = "region_mapper" /\ pc = "return")
        => LET In(p, box) ==
                   (box.left < box.right /\ box.top < box.bottom)
                       => /\ box.left <= p.x /\ p.x < box.right
                          /\ box.top <= p.y /\ p.y < box.bottom
           IN  /\ In(obs.tap, obs.cover.box)
               /\ In(obs.swipe_start, obs.region_box)

\* C18: the truncated planner answer {"action":"tap","region":5,"regions":[5,6
\* (not JSON, the regions array never closed) is parsed to an intent with
\* region = 5 and regions = [5, 6].
C18_TruncatedAnswerKeepsRegions ==
    (/\ engine = "planner_of" /\ pc = "return"
     /\ cfg.planner_raw =
            Reply(FALSE, FALSE, "length",
                  [NoFields EXCEPT !.action = SomeStr("tap"), !.region = SomeInt(5),
                                   !.regions = SomeRegions(<< 5, 6 >>)]))
        => /\ obs.planner.action = SomeStr("tap")
           /\ obs.planner.region = SomeInt(5)
           /\ obs.planner.regions = SomeRegions(<< 5, 6 >>)

\* C19: parse_action returns for every answer text exactly one intent among
\* tap, swipe, type, wait, finish and invalid, without raising; an invalid
\* intent carries the unparsed text and a reason; Tap without element, Swipe
\* without start or end, Type without text and an unknown action are invalid.
C19_ParseActionTotal ==
    (engine = "parse_action" /\ pc = "return")
        => LET a == cfg.answer
           IN  /\ obs.kind \in {"tap", "swipe", "type", "wait", "finish", "invalid"}
               /\ obs.kind = "invalid" => (obs.raw = a /\ obs.reason # "")
               /\ a.head = "other" => obs.kind = "invalid"
               /\ (a.head = "do" /\ a.act = "Tap" /\ ~a.element.some) => obs.kind = "invalid"
               /\ (a.head = "do" /\ a.act = "Swipe" /\ (~a.start.some \/ ~a.end.some))
                      => obs.kind = "invalid"
               /\ (a.head = "do" /\ a.act \in {"Type", "Type_Name"} /\ ~a.text.some)
                      => obs.kind = "invalid"
               /\ (a.head = "do" /\ a.act = "Back") => obs.kind = "invalid"

\* C20: for every decodable screenshot and every tap centre of the click
\* range build_focus_context returns a focus context, also when every crop up
\* to the maximum radius is near-uniform.
C20_FocusContextAlwaysBuilt ==
    (/\ engine = "build_focus_context" /\ pc = "return"
     /\ ScreenOf(cfg.full_image_b64).decodable)
        => obs.some

\* C21: two states of the screenshot source are the same iff the Hamming
\* distance of their hashes is <= the threshold when both hashes exist, and
\* otherwise iff their byte signatures are equal; states of different sources
\* are different; the verdict does not depend on the order of the arguments.
C21_SimilarIffCloseOrEqual ==
    (engine = "_states_similar" /\ pc = "return" /\ cfg.prev.some /\ cfg.curr.some)
        => LET a == cfg.prev
               b == cfg.curr
               dist == Cardinality({ k \in 1..(size * size) :
                                       a.screen_ahash.bits[k] # b.screen_ahash.bits[k] })
           IN  /\ a.source # b.source => ~obs.same
               /\ (a.source = "screenshot" /\ b.source = "screenshot")
                      => IF a.screen_ahash.some /\ b.screen_ahash.some
                         THEN obs.same <=> (dist <= cfg.ahash_threshold)
                         ELSE obs.same <=> (a.state_sig = b.state_sig)
               /\ obs.same = _states_similar(b, a, cfg.ahash_threshold)

\* C21 witness: two screenshots of different bytes whose hashes differ in one
\* bit are the same under threshold 6.
C21_Witness ==
    /\ engine = "_states_similar" /\ pc = "return"
    /\ cfg.prev.source = "screenshot" /\ cfg.curr.source = "screenshot"
    /\ cfg.prev.state_sig # cfg.curr.state_sig
    /\ cfg.prev.screen_ahash.some /\ cfg.curr.screen_ahash.some
    /\ _hamming_distance(cfg.prev.screen_ahash.bits, cfg.curr.screen_ahash.bits) = 1
    /\ cfg.ahash_threshold = 6 /\ obs.same

\* C22: in run_agent the same-UI streak is at most step - 1 (0 at step 1);
\* the capture at the head of a step sets it to the previous streak + 1 when
\* the captured state is judged the same as the previous step's capture and
\* to 0 otherwise, and makes that capture the comparison base; nothing else
\* in the step (no post-tap capture) changes the streak or the base.
C22_StreakCountsSameCaptures ==
    /\ [](engine = "agent" /\ step >= 1
             => /\ 0 <= same_state_streak /\ same_state_streak <= step - 1
                /\ pc \notin {"fetch", "done"} => prev_state = state)
    /\ [][engine = "agent"
             => IF pc = "fetch" /\ pc' = "ask"
                THEN /\ prev_state' = state'
                     /\ same_state_streak' =
                            IF prev_state.some
                                  /\ _states_similar(prev_state, state',
                                                     cfg.screenshot_ahash_threshold)
                            THEN same_state_streak + 1 ELSE 0
                ELSE /\ prev_state' = prev_state
                     /\ same_state_streak' = same_state_streak]_vars

\* C22 witness: the third step captures the same UI for the third time.
C22_Witness ==
    /\ engine = "agent" /\ pc = "ask" /\ step = 3 /\ same_state_streak = 2

\* C23: when some (rows, cols) in range has cells wider and higher than one
\* pixel, _choose_adaptive_grid returns such a candidate: if any candidate's
\* log error is <= the target, one within the target minimizing (cell count,
\* log error) among those; otherwise one minimizing (log error, cell count)
\* among all.
C23_GridMinimizesKey ==
    (engine = "_choose_adaptive_grid" /\ pc = "return")
        => LET segments == cfg.min_segments..cfg.max_segments
               cand == { rc \in segments \X segments :
                             cfg.width > rc[2] /\ cfg.height > rc[1] }
               hi(rc) == Max(cfg.width * rc[1], cfg.height * rc[2])
               lo(rc) == Min(cfg.width * rc[1], cfg.height * rc[2])
               within(rc) == hi(rc) * grid_target.den <= grid_target.num * lo(rc)
               res == << obs.rows, obs.cols >>
           IN  cand # {}
                   => /\ res \in cand
                      /\ obs.cells = obs.rows * obs.cols
                      /\ IF \E rc \in cand : within(rc)
                         THEN /\ within(res)
                              /\ \A rc \in cand :
                                     within(rc)
                                         => \/ obs.cells < rc[1] * rc[2]
                                            \/ /\ obs.cells = rc[1] * rc[2]
                                               /\ hi(res) * lo(rc) <= hi(rc) * lo(res)
                         ELSE \A rc \in cand :
                                  \/ hi(res) * lo(rc) < hi(rc) * lo(res)
                                  \/ /\ hi(res) * lo(rc) = hi(rc) * lo(res)
                                     /\ obs.cells <= rc[1] * rc[2]

\* C23 witness: a frame 4 pixels wide and 2340 high has no candidate within
\* the target; the result is the candidate of least log error, 12 rows by 3
\* columns.
C23_Witness ==
    /\ engine = "_choose_adaptive_grid" /\ pc = "return"
    /\ cfg.width = 4 /\ cfg.height = Frame.h
    /\ cfg.min_segments = 3 /\ cfg.max_segments = 12
    /\ obs.rows = 12 /\ obs.cols = 3

\* C24: the region mapper expands the region set to every column of one row
\* if and only if the planner gave exactly one region and the target holds a
\* bar-like keyword; with no region or several regions given there is no
\* row expansion.
C24_RowExpansionIffOneRegion ==
    (engine = "region_mapper" /\ pc = "return")
        => LET given == { r \in Range(cfg.planner.regions.v)
                                 \cup (IF cfg.planner.region.some
                                       THEN {cfg.planner.region.v} ELSE {}) : r > 0 }
               expanded ==
                   /\ Len(obs.cover.normalized) = cfg.grid.cols
                   /\ Range(obs.cover.normalized)
                          # { _clamp(r, 1, cfg.grid.cells) : r \in given }
           IN  expanded
                   <=> /\ Cardinality(given) = 1
                       /\ _looks_like_horizontal_span_target(cfg.planner.target)

\* C25: a tap step of run_controller sends one regions-repair request when
\* the planner answer was truncated (finish reason "length", or a regions
\* array opened and never closed) and fewer than 2 regions were parsed, and
\* none otherwise; after a repair the regions are the union of the parsed and
\* the recovered ones, and an empty recovery leaves the planner object as it
\* was.
C25_RepairOnTruncatedRegions ==
    (engine = "controller" /\ obs.last_command.kind = "click")
        => LET raw == obs.planner_raw
               first == planner_of(raw)
               parsed == IF first.regions.some THEN first.regions.v ELSE << >>
               truncated == \/ raw.finish_reason = "length"
                            \/ raw.fields.regions.some /\ ~raw.regions_closed
               recovered == planner_of(obs.repair_raw).regions.v
           IN  /\ obs.requests = (IF truncated /\ Len(parsed) < 2 THEN 3 ELSE 2)
               /\ obs.requests = 2 => obs.planner = first
               /\ (obs.requests = 3 /\ recovered = << >>) => obs.planner = first
               /\ (obs.requests = 3 /\ recovered # << >>)
                      => /\ obs.planner.regions.some
                         /\ Range(obs.planner.regions.v) = Range(parsed) \cup Range(recovered)

\* C25 witness: the answer cut after "regions":[5] gets a repair answered
\* with 8, 7; the regions become 5, 7, 8.
C25_Witness ==
    /\ engine = "controller" /\ obs.last_command.kind = "click"
    /\ obs.requests = 3
    /\ planner_of(obs.planner_raw).regions = SomeRegions(<< 5 >>)
    /\ obs.planner.regions = SomeRegions(<< 5, 7, 8 >>)

\* C26: when the tap ladder of run_agent returns, the retained last tap
\* location is the last point the ladder tapped (clipped to the click range);
\* a swipe, type or wait step clears it; a step that ends as an unrecovered
\* invalid answer leaves the location and the same-UI streak unchanged.
C26_LastTapIsLastLadderPoint ==
    [][engine = "agent"
          => /\ (pc = "ladder" /\ pc' = "post")
                    => /\ obs'.taps >= 1
                       /\ obs'.last_command.kind = "click"
                       /\ last_tap_point' = obs'.last_command.pts[1]
                       /\ InClickRange(last_tap_point')
             /\ (pc = "dispatch" /\ pc' = "post" /\ action.kind \in {"swipe", "type", "wait"})
                    => ~last_tap_point'.some
             /\ (pc = "recover" /\ pc' \in {"fetch", "done"} /\ outcome' # "fatal")
                    => /\ last_tap_point' = last_tap_point
                       /\ same_state_streak' = same_state_streak]_vars

\* C27: a focus context returned by build_focus_context has a radius
\* initial + k * step (initial = max(10, focus_radius_px), step = max(10,
\* focus_expand_step_px)) that is not above the maximum max(initial,
\* focus_max_radius_px); the crops of all smaller radii of that ladder are
\* near-uniform; its own crop is not near-uniform, or the next radius would
\* pass the maximum; its box is the crop of that radius around the centre,
\* inside the frame: 0 <= left < right <= width, 0 <= top < bottom <= height.
C27_FocusRadiusLadder ==
    (engine = "build_focus_context" /\ pc = "return" /\ obs.some)
        => LET img == ScreenOf(cfg.full_image_b64)
               initial == Max(10, cfg.focus_radius_px)
               maximum == Max(initial, cfg.focus_max_radius_px)
               expand == Max(10, cfg.focus_expand_step_px)
               uniform(r) == LET e == crop_extrema(img, r) IN e[2] - e[1] <= tolerance
               r_used == obs.radius_px
           IN  /\ r_used >= initial /\ r_used <= maximum
               /\ (r_used - initial) % expand = 0
               /\ \A k \in 0..((r_used - initial) \div expand - 1) :
                      uniform(initial + k * expand)
               /\ ~uniform(r_used) \/ r_used + expand > maximum
               /\ obs.box_left = Max(0, cfg.center_x - r_used)
               /\ obs.box_right = Min(img.w, cfg.center_x + r_used)
               /\ obs.box_top = Max(0, cfg.center_y - r_used)
               /\ obs.box_bottom = Min(img.h, cfg.center_y + r_used)
               /\ 0 <= obs.box_left /\ obs.box_left < obs.box_right /\ obs.box_right <= img.w
               /\ 0 <= obs.box_top /\ obs.box_top < obs.box_bottom /\ obs.box_bottom <= img.h

\* C27 witness: on the screen that is uniform up to 220 pixels around the tap
\* the crop of radius 200 is near-uniform and the crop of radius 250 is taken.
C27_Witness ==
    /\ engine = "build_focus_context" /\ pc = "return"
    /\ cfg.full_image_b64 = 2 /\ cfg.focus_radius_px = 200
    /\ obs.some /\ obs.radius_px = 250

\* C28: in run_agent and run_controller the history holds one entry per
\* completed step, the k-th entry being that of step k: while a step is in
\* progress, or after a step that ended the run, the entries of the steps
\* before it, and all of them once the step budget is used up; the history
\* changes only by appending the entry of the next step.
C28_OneHistoryEntryPerStep ==
    /\ [](LET completed ==
                  IF engine = "agent"
                  THEN IF pc = "done" /\ outcome = "exhausted" THEN step ELSE Max(0, step - 1)
                  ELSE IF pc = "done" /\ outcome # "exhausted" THEN Max(0, step - 1) ELSE step
          IN  /\ Len(history) = completed
              /\ \A k \in 1..Len(history) : history[k].step = k)
    /\ [][\/ history' = history
          \/ /\ Len(history') = Len(history) + 1
             /\ SubSeq(history', 1, Len(history)) = history
             /\ history'[Len(history')].step = Len(history) + 1
             /\ outcome' \notin {"finished", "fatal"}]_vars

\* C28 witness: run_controller has recorded three steps, the second one with a
\* device command that failed.
C28_Witness ==
    /\ engine = "controller" /\ pc = "loop"
    /\ Len(history) = 3 /\ ~history[2].ok

\* C29: in run_agent a focus context is pending only between the end of a tap
\* step and the head of the next step; it is created at the end of a step whose
\* action is a tap, its centre is the retained last tap location, which is the
\* point of the last click of that step, and the last tap location is never
\* cleared while a focus context is pending.
C29_PendingFocusFollowsTap ==
    /\ []((engine = "agent" /\ pending_focus_ctx.some)
            => /\ pc \in {"fetch", "done"}
               /\ last_tap_point.some
               /\ pending_focus_ctx.center_x = last_tap_point.x
               /\ pending_focus_ctx.center_y = last_tap_point.y
               /\ pc = "fetch" => pending_focus_ctx.built_step = step - 1)
    /\ [][(engine = "agent" /\ pending_focus_ctx'.some /\ pending_focus_ctx' # pending_focus_ctx)
            => /\ pc = "focus" /\ action.kind = "tap"
               /\ obs.last_command.kind = "click"
               /\ obs.last_command.pts[1] = last_tap_point
               /\ last_tap_point' = last_tap_point]_vars

\* C29 witness: the third step starts with a focus context pending from the
\* tap of the second step.
C29_Witness ==
    /\ engine = "agent" /\ pc = "fetch" /\ step = 3
    /\ pending_focus_ctx.some /\ pending_focus_ctx.built_step = 2
    /\ last_tap_point.some

\* C30: the model requests of one step are bounded. In run_agent a step that
\* got its first answer has issued 1 request plus one per re-prompt, at most
\* max(0, invalid_action_retry) of them, and a re-prompt is issued only while
\* the answer in hand is invalid. In run_controller a step issues at most 3
\* requests, exactly 1 unless its action is a tap and 2 or 3 in a tap step.
C30_RequestsPerStepBounded ==
    /\ [](/\ engine = "agent"
             => /\ obs.requests <= 1 + Max(0, cfg.invalid_action_retry)
                /\ pc \in {"recover", "dispatch", "ladder", "post", "focus"}
                      => /\ obs.requests = 1 + attempt
                         /\ attempt > 0 /\ pc # "recover" => recovered_from_invalid
          /\ engine = "controller" => obs.requests <= 3)
    /\ [][/\ (engine = "agent" /\ obs'.requests # obs.requests /\ outcome' # "fatal"
                 /\ pc \notin {"focus", "recover"})
              => pc = "ask" /\ obs.requests = 0 /\ obs'.requests = 1
          /\ (engine = "agent" /\ pc = "recover" /\ obs'.requests # obs.requests)
              => \/ /\ obs'.requests = obs.requests + 1
                    /\ action.kind = "invalid"
                    /\ obs.requests < 1 + Max(0, cfg.invalid_action_retry)
                 \/ obs'.requests = 0 /\ pc' \in {"fetch", "done"}
          /\ (engine = "controller" /\ step' = step + 1 /\ outcome' = "finished")
              => obs'.requests = 1
          /\ (engine = "controller" /\ step' = step + 1 /\ outcome' = "running")
              => /\ Len(history') = Len(history) + 1
                 /\ IF history'[Len(history')].kind = "tap"
                    THEN obs'.requests \in {2, 3}
                    ELSE obs'.requests = 1]_vars

\* C30 witness: with invalid_action_retry = 2 the second re-prompt of a step of
\* run_agent gave a usable answer after three requests.
C30_Witness ==
    /\ engine = "agent" /\ pc = "dispatch"
    /\ cfg.invalid_action_retry = 2
    /\ obs.requests = 3 /\ recovered_from_invalid

====
